---- MODULE Spec2Model ----
(***************************************************************************)
(* A model of the peer session of SuperSecureChat: the RTCPeer object of   *)
(* p2p_chat/rtc_peer.py with the FileTransferMixin of                      *)
(* p2p_chat/file_transfer_mixin.py mixed in.                               *)
(*                                                                         *)
(* A session is a record holding the object's fields, the positions of the *)
(* asyncio tasks it owns, the files below its staging directory and the    *)
(* outputs (events emitted, messages sent, warnings logged) of the step    *)
(* that ran last.  A method or handler is an operator from a session to    *)
(* the session it leaves behind, so that a handler that calls helpers is   *)
(* the composition of their operators.  Every coroutine is cut at its      *)
(* awaits that really suspend: one action is one run of the event loop     *)
(* from one suspension point to the next.                                  *)
(*                                                                         *)
(* The transport (aiortc's RTCPeerConnection and RTCDataChannel) is not    *)
(* part of the program: its state changes are chosen by the environment.   *)
(*                                                                         *)
(* The functions of p2p_chat/security.py and p2p_chat/signaling.py are     *)
(* operators on texts, which are sequences of characters.                  *)
(***************************************************************************)
EXTENDS Integers, Sequences, FiniteSets, TLC

VARIABLES
    peer,   \* peer[p]: the session (RTCPeer object, its tasks, its files) of peer p
    net,    \* net[p]: the messages in flight to peer p, in channel order
    hist,   \* observations of the run, and what the remote end of the channel is
    val     \* the argument and the results of a function of security.py or
            \* signaling.py that is applied outside of any session

vars == <<peer, net, hist, val>>

----------------------------------------------------------------------------
(* Bounds of the model. *)

\* handler invocations of connectionstatechange scheduled and not yet run
MaxPending == 1
\* the time since the last heartbeat response is counted up to here (seconds);
\* more than ten heartbeat intervals
MaxTime == 12
\* longest file, in bytes of the model
MaxFileLen == 3
\* bytes per binary chunk: file_chunk_size (32768 in the program), scaled down
file_chunk_size == 2
\* longest message given to sanitize_message, in characters
MaxMsgLen == 5
\* longest message given to send, in characters
MaxChatLen == 2
\* the longest sdp of a session description given to encode
MaxSdpLen == 3
\* the longest file name given to validate_file_transfer
MaxNameLen == 4
\* chunk-send tasks alive at once
MaxSendTasks == 2
\* send_file calls that created a transfer object
MaxSends == 2
\* staging file handles lost while still open
MaxLeaked == 1
\* messages in flight to one peer
MaxInFlight == 4
\* ICE candidates a transport gathers
MaxCandidates == 2

\* RTCPeer._wait_for_ice_gathering, timeout: 10.0 s, in the 0.1 s of its sleep
ICE_TIMEOUT == 100

----------------------------------------------------------------------------
(* Values. *)

None == "None"
Peers == {"A", "B"}
Other(p) == IF p = "A" THEN "B" ELSE "A"

\* Delays are counted in 1/64 s, which keeps delay * 1.5 exact for every
\* delay the model reaches (2.0 s = 128, 3.0 s = 192, 4.5 s = 288, ...).
Sec(n) == n * 64
Mul15(d) == (d * 3) \div 2
Min(a, b) == IF a <= b THEN a ELSE b

\* The arguments of set_reconnection_config the model draws from:
\* <<max_attempts, initial_delay, max_delay>>.
ReconnectionConfigs ==
    { <<1, Sec(5), Sec(4)>>, <<3, Sec(2), Sec(4)>> }

\* File contents are sequences of bytes; a file is named by what it holds.
Bytes == {0, 1}
SeqsUpTo(n) == UNION { [1..k -> Bytes] : k \in 1..n }
Contents == SeqsUpTo(MaxFileLen)
\* a path of the staging directory: no file there, or a file and its content
NoFile == [exists |-> FALSE, data |-> <<>>]
File(c) == [exists |-> TRUE, data |-> c]
\* the absent value of a field that holds a transfer id, a checksum or a path
NoId == <<>>

\* security.calculate_file_checksum: SHA-256 of the content, taken to be
\* free of collisions.
calculate_file_checksum(c) == <<"sha256", c>>

\* security.verify_file_integrity: the digests are compared in lower case,
\* and every digest of the model is in lower case.
verify_file_integrity(c, expected) == calculate_file_checksum(c) = expected

\* send_file's transfer_id: md5 of filename, size and checksum, taken to be
\* free of collisions.  The file's name is its content.
TransferIdOf(c) == <<"md5", c, Len(c), calculate_file_checksum(c)>>

\* The files this peer sends, and the files the remote peer offers.
SendFiles == { <<1>>, [i \in 1..MaxFileLen |-> 0] }
OfferedFiles == { <<0>>, <<0, 1>> }
InboundIds == { TransferIdOf(c) : c \in OfferedFiles }
TransferIds == { TransferIdOf(c) : c \in Contents }

\* security.MAX_FILE_SIZE
MAX_FILE_SIZE == 104857600

\* A message of the data channel.  type "chunk" is a binary message.  A field
\* a message lacks is NoId (transfer_id, checksum, filename), 0 (file_size: a
\* missing size and the size 0 both fail the handler's all([...])) or <<>>
\* (data).  A file is offered under the name "s" unless Offer names it.
Msg(type, tid, size, checksum, data) ==
    [type |-> type, transfer_id |-> tid, file_size |-> size, checksum |-> checksum,
     data |-> data, filename |-> IF type = "file_offer" THEN <<"s">> ELSE <<>>]
Ctl(type, tid) == Msg(type, tid, 0, NoId, <<>>)
NoMsg == Ctl(None, NoId)

\* One output of a step: an event emitted to the listeners, a message handed
\* to the data channel, a warning logged, a public method called, or a
\* description applied to the transport.
Item(kind, name, tid, arg) == [kind |-> kind, name |-> name, tid |-> tid, arg |-> arg]

emit(s, name, tid) == [s EXCEPT !.out = Append(@, Item("emit", name, tid, NoMsg))]
\* self.emit("file_error", {'transfer_id': tid, 'error': error})
emit_file_error(s, tid, error) ==
    [s EXCEPT !.out = Append(@, Item("emit", "file_error", tid, Ctl(error, NoId)))]
warn(s, name) == [s EXCEPT !.out = Append(@, Item("warn", name, NoId, NoMsg))]
\* the application calls a public method for a transfer
call(s, name, tid) == [s EXCEPT !.out = Append(@, Item("call", name, tid, NoMsg))]

EmittedFor(s, name, tid) ==
    \E i \in DOMAIN s.out :
        s.out[i].kind = "emit" /\ s.out[i].name = name /\ s.out[i].tid = tid
Sent(s, type) == \E i \in DOMAIN s.out : s.out[i].kind = "send" /\ s.out[i].name = type
Emitted(s, name) == \E i \in DOMAIN s.out : s.out[i].kind = "emit" /\ s.out[i].name = name
EmittedFileError(s, tid, error) ==
    \E i \in DOMAIN s.out :
        /\ s.out[i].kind = "emit" /\ s.out[i].name = "file_error"
        /\ s.out[i].tid = tid /\ s.out[i].arg.type = error
Warned(s, name) == \E i \in DOMAIN s.out : s.out[i].kind = "warn" /\ s.out[i].name = name
Called(s, name, tid) ==
    \E i \in DOMAIN s.out :
        s.out[i].kind = "call" /\ s.out[i].name = name /\ s.out[i].tid = tid

----------------------------------------------------------------------------
(* security.py: strings are sequences of characters.  One character stands
   for each class the sanitizers tell apart. *)

\* str.strip() removes these at both ends
Whitespace == {" ", "LF"}
\* DANGEROUS_PATTERN matches these (SOH is \x01)
Dangerous == {"SOH"}
\* string.ascii_letters + string.digits
Alphanumeric == {"a", "A", "n", "o", "y", "m", "u", "s"}
\* sanitize_username keeps these
UsernameChars == Alphanumeric \cup {" ", ".", "_", "-"}

\* security.MAX_MESSAGE_LENGTH, MAX_MESSAGE_LINES, and the bound on usernames
MAX_MESSAGE_LENGTH == 8192
MAX_MESSAGE_LINES == 100
MAX_USERNAME_LENGTH == 50

\* str.strip()
strip(x) ==
    LET keep == { i \in DOMAIN x : x[i] \notin Whitespace } IN
    IF keep = {} THEN <<>>
    ELSE SubSeq(x, CHOOSE i \in keep : \A j \in keep : i <= j,
                   CHOOSE i \in keep : \A j \in keep : i >= j)

\* DANGEROUS_PATTERN.sub('', x)
RemoveDangerous(x) == SelectSeq(x, LAMBDA c : c \notin Dangerous)

\* a function of security.py returns a string or raises SecurityViolation
Returns(x) == [ok |-> TRUE, value |-> x]
Raises == [ok |-> FALSE, value |-> <<>>]

Anonymous == <<"A", "n", "o", "n", "y", "m", "o", "u", "s">>

\* security.sanitize_username
sanitize_username(username) ==
    LET u1 == strip(username)
        u2 == RemoveDangerous(u1)
        u3 == [i \in DOMAIN u2 |-> IF u2[i] = "|" THEN "_" ELSE u2[i]]
        u4 == SelectSeq(u3, LAMBDA c : c \in UsernameChars)
    IN  IF Len(u1) > MAX_USERNAME_LENGTH THEN Raises
        ELSE IF u2 = <<>> THEN Returns(Anonymous)
        ELSE IF u4 = <<>> THEN Returns(Anonymous)
        ELSE Returns(u4)

\* content.split('\n'): the number of lines
Lines(x) == 1 + Cardinality({ i \in DOMAIN x : x[i] = "LF" })

\* security._sanitize_message_content
_sanitize_message_content(content) ==
    IF Len(content) > MAX_MESSAGE_LENGTH THEN Raises
    ELSE IF Lines(content) > MAX_MESSAGE_LINES THEN Raises
    ELSE LET c1 == strip(RemoveDangerous(content))
         IN  IF c1 = <<>> THEN Raises ELSE Returns(c1)

\* security.sanitize_message
sanitize_message(message) ==
    LET pipes == { i \in DOMAIN message : message[i] = "|" } IN
    IF pipes # {}
    THEN LET k == CHOOSE i \in pipes : \A j \in pipes : i <= j
             sanitized_username == sanitize_username(SubSeq(message, 1, k - 1))
             sanitized_content  ==
                 _sanitize_message_content(SubSeq(message, k + 1, Len(message)))
         IN  IF sanitized_username.ok /\ sanitized_content.ok
             THEN Returns(sanitized_username.value \o <<"|">> \o sanitized_content.value)
             ELSE Raises
    ELSE _sanitize_message_content(message)

\* security.MAX_FILENAME_LENGTH
MAX_FILENAME_LENGTH == 255

\* DANGEROUS_FILE_EXTENSIONS and ALLOWED_FILE_EXTENSIONS, those of their
\* members that the characters of the model's file names can spell
DANGEROUS_FILE_EXTENSIONS == { <<".", "j", "s">> }
ALLOWED_FILE_EXTENSIONS == { <<".", "j", "s">> }

\* os.path.basename (posixpath): what follows the last slash
basename(p) ==
    LET slashes == { i \in DOMAIN p : p[i] = "/" } IN
    IF slashes = {} THEN p
    ELSE SubSeq(p, (CHOOSE i \in slashes : \A j \in slashes : j <= i) + 1, Len(p))

\* str.replace('..', ''): the occurrences are found from the left, none
\* overlapping another
RECURSIVE ReplaceDots(_)
ReplaceDots(x) ==
    IF Len(x) >= 2 /\ x[1] = "." /\ x[2] = "." THEN ReplaceDots(SubSeq(x, 3, Len(x)))
    ELSE IF x = <<>> THEN <<>>
    ELSE <<Head(x)>> \o ReplaceDots(Tail(x))

\* str.replace(c, '') of one character
Remove(x, c) == SelectSeq(x, LAMBDA e : e # c)

\* while filename.startswith('.'): filename = filename[1:]
RECURSIVE StripLeadingDots(_)
StripLeadingDots(x) ==
    IF x # <<>> /\ Head(x) = "." THEN StripLeadingDots(Tail(x)) ELSE x

\* os.path.splitext(p)[1] of a name without separators: from the last dot
\* on, when a character that is no dot stands before it
splitext(p) ==
    LET dots == { i \in DOMAIN p : p[i] = "." } IN
    IF dots = {} THEN <<>>
    ELSE LET dotIndex == CHOOSE i \in dots : \A j \in dots : j <= i IN
         IF \E k \in 1..(dotIndex - 1) : p[k] # "."
         THEN SubSeq(p, dotIndex, Len(p)) ELSE <<>>

\* security.sanitize_filename
sanitize_filename(filename) ==
    LET f1 == strip(filename) IN
    IF Len(f1) > MAX_FILENAME_LENGTH THEN Raises
    ELSE IF f1 = <<>> THEN Raises
    ELSE LET f2 == basename(RemoveDangerous(f1))
             f3 == Remove(Remove(ReplaceDots(f2), "/"), "\\")
             f4 == StripLeadingDots(f3)
         IN  IF f4 = <<>> THEN Raises
             ELSE IF splitext(f4) \in DANGEROUS_FILE_EXTENSIONS THEN Raises
             ELSE Returns(f4)

\* security.validate_file_transfer
validate_file_transfer(filename, file_size, allow_any_extension) ==
    IF file_size <= 0 THEN Raises
    ELSE IF file_size > MAX_FILE_SIZE THEN Raises
    ELSE LET sanitized_filename == sanitize_filename(filename) IN
         IF ~sanitized_filename.ok THEN Raises
         ELSE LET file_ext == splitext(sanitized_filename.value) IN
              IF ~allow_any_extension /\ file_ext # <<>>
                 /\ file_ext \notin ALLOWED_FILE_EXTENSIONS
              THEN Raises
              ELSE sanitized_filename

----------------------------------------------------------------------------
(* signaling: a session description as a key, and back.  A text is a
   sequence of characters, each a string of one character; "LF" stands for
   the line feed and "U+E9" for a character beyond ASCII. *)

\* the characters of the session descriptions
SdpChars == {"a", "\"", "\\", "LF", "U+E9"}
Texts(n) == UNION { [1..k -> SdpChars] : k \in 0..n }
DescriptionTypes == { <<"o", "f", "f", "e", "r">>, <<"a", "n", "s", "w", "e", "r">> }

\* A mutant: json.dumps leaves the backslash as it is.
Mutant_escape_keeps_backslash(c) ==
    CASE c = "\"" -> <<"\\", "\"">>
      [] c = "LF" -> <<"\\", "n">>
      [] c = "U+E9" -> <<"\\", "u", "0", "0", "e", "9">>
      [] OTHER -> <<c>>

\* json.dumps of one character of a string (ensure_ascii)
EscapeChar(c) ==
    CASE c = "\"" -> <<"\\", "\"">>
      [] c = "\\" -> <<"\\", "\\">>
      [] c = "LF" -> <<"\\", "n">>
      [] c = "U+E9" -> <<"\\", "u", "0", "0", "e", "9">>
      [] OTHER -> <<c>>

\* json.dumps of the characters of a string
RECURSIVE Escape(_)
Escape(x) ==
    IF x = <<>> THEN <<>> ELSE EscapeChar(Head(x)) \o Escape(Tail(x))

Quoted(x) == <<"\"">> \o Escape(x) \o <<"\"">>

\* json.dumps(data, separators=(',', ':')) of {"type": ..., "sdp": ...}
Dumps(type, sdp) ==
    <<"{">> \o Quoted(<<"t", "y", "p", "e">>) \o <<":">> \o Quoted(type)
        \o <<",">> \o Quoted(<<"s", "d", "p">>) \o <<":">> \o Quoted(sdp) \o <<"}">>

\* the ASCII characters of such a text and their codes
Ascii ==
    { <<"\"", 34>>, <<",", 44>>, <<"0", 48>>, <<"9", 57>>, <<":", 58>>, <<"\\", 92>>,
      <<"a", 97>>, <<"d", 100>>, <<"e", 101>>, <<"f", 102>>, <<"n", 110>>,
      <<"o", 111>>, <<"p", 112>>, <<"r", 114>>, <<"s", 115>>, <<"t", 116>>,
      <<"u", 117>>, <<"w", 119>>, <<"y", 121>>, <<"{", 123>>, <<"}", 125>> }

\* str.encode('utf-8') and bytes.decode('utf-8') of ASCII text
Utf8Encode(x) == [i \in DOMAIN x |-> (CHOOSE a \in Ascii : a[1] = x[i])[2]]
Utf8Valid(b) == \A i \in DOMAIN b : \E a \in Ascii : a[2] = b[i]
Utf8Decode(b) == [i \in DOMAIN b |-> (CHOOSE a \in Ascii : a[2] = b[i])[1]]

\* the alphabet of base64
B64 ==
    << "A", "B", "C", "D", "E", "F", "G", "H", "I", "J", "K", "L", "M", "N", "O", "P",
       "Q", "R", "S", "T", "U", "V", "W", "X", "Y", "Z", "a", "b", "c", "d", "e", "f",
       "g", "h", "i", "j", "k", "l", "m", "n", "o", "p", "q", "r", "s", "t", "u", "v",
       "w", "x", "y", "z", "0", "1", "2", "3", "4", "5", "6", "7", "8", "9", "+", "/" >>
B64Char(n) == B64[n + 1]
B64Value(c) == (CHOOSE i \in DOMAIN B64 : B64[i] = c) - 1
IsB64(c) == \E i \in DOMAIN B64 : B64[i] = c

\* base64.b64encode
RECURSIVE b64encode(_)
b64encode(b) ==
    IF b = <<>> THEN <<>>
    ELSE IF Len(b) = 1
    THEN << B64Char(b[1] \div 4), B64Char((b[1] % 4) * 16), "=", "=" >>
    ELSE IF Len(b) = 2
    THEN << B64Char(b[1] \div 4), B64Char((b[1] % 4) * 16 + b[2] \div 16),
            B64Char((b[2] % 16) * 4), "=" >>
    ELSE << B64Char(b[1] \div 4), B64Char((b[1] % 4) * 16 + b[2] \div 16),
            B64Char((b[2] % 16) * 4 + b[3] \div 64), B64Char(b[3] % 64) >>
         \o b64encode(SubSeq(b, 4, Len(b)))

\* signaling.encode
encode(description) ==
    b64encode(Utf8Encode(Dumps(description.type, description.sdp)))

\* base64.b64decode accepts whole groups of four characters of the alphabet,
\* the last one padded with "="
B64WellFormed(k) ==
    /\ Len(k) % 4 = 0
    /\ \A i \in DOMAIN k :
          \/ IsB64(k[i])
          \/ k[i] = "=" /\ i >= Len(k) - 1 /\ (i = Len(k) - 1 => k[Len(k)] = "=")

RECURSIVE b64decode(_)
b64decode(k) ==
    IF k = <<>> THEN <<>>
    ELSE LET v1 == B64Value(k[1])
             v2 == B64Value(k[2])
         IN  IF k[3] = "=" THEN << v1 * 4 + v2 \div 16 >>
             ELSE LET v3 == B64Value(k[3]) IN
                  IF k[4] = "="
                  THEN << v1 * 4 + v2 \div 16, (v2 % 16) * 16 + v3 \div 4 >>
                  ELSE << v1 * 4 + v2 \div 16, (v2 % 16) * 16 + v3 \div 4,
                          (v3 % 4) * 64 + B64Value(k[4]) >>
                       \o b64decode(SubSeq(k, 5, Len(k)))

\* json.loads: a string literal of text t that opens at position i.  The
\* result is the string and the position after the closing quote; next = 0
\* when the text is no string literal there.
NoParse == [next |-> 0, value |-> <<>>]
RECURSIVE ScanString(_, _, _)
ScanString(t, i, acc) ==
    IF i > Len(t) THEN NoParse
    ELSE IF t[i] = "\"" THEN [next |-> i + 1, value |-> acc]
    ELSE IF t[i] # "\\" THEN ScanString(t, i + 1, Append(acc, t[i]))
    ELSE IF i + 1 > Len(t) THEN NoParse
    ELSE IF t[i + 1] \in {"\"", "\\"} THEN ScanString(t, i + 2, Append(acc, t[i + 1]))
    ELSE IF t[i + 1] = "n" THEN ScanString(t, i + 2, Append(acc, "LF"))
    ELSE IF t[i + 1] = "u" /\ i + 5 <= Len(t)
            /\ SubSeq(t, i + 2, i + 5) = <<"0", "0", "e", "9">>
         THEN ScanString(t, i + 6, Append(acc, "U+E9"))
    ELSE NoParse
ParseString(t, i) ==
    IF i > Len(t) \/ t[i] # "\"" THEN NoParse ELSE ScanString(t, i + 1, <<>>)

\* json.loads: the members "key":"value" of an object from position i on, up
\* to the closing brace that ends the text.  The result is the sequence of
\* the members, or Raises.
RECURSIVE ParseMembers(_, _, _)
ParseMembers(t, i, acc) ==
    LET key == ParseString(t, i) IN
    IF key.next = 0 \/ key.next > Len(t) \/ t[key.next] # ":" THEN Raises
    ELSE LET value == ParseString(t, key.next + 1)
             member == [key |-> key.value, value |-> value.value]
         IN  IF value.next = 0 \/ value.next > Len(t) THEN Raises
             ELSE IF t[value.next] = "}"
                  THEN IF value.next = Len(t) THEN Returns(Append(acc, member))
                       ELSE Raises
             ELSE IF t[value.next] = ","
                  THEN ParseMembers(t, value.next + 1, Append(acc, member))
             ELSE Raises

\* json.loads of an object whose members are strings
Loads(t) ==
    IF Len(t) < 2 \/ t[1] # "{" THEN Raises
    ELSE IF t = <<"{", "}">> THEN Returns(<<>>)
    ELSE ParseMembers(t, 2, <<>>)

\* data[key] of a parsed object: the last member of that name
Member(data, key) ==
    LET at == { i \in DOMAIN data : data[i].key = key }
    IN  data[CHOOSE i \in at : \A j \in at : j <= i].value
HasMember(data, key) == \E i \in DOMAIN data : data[i].key = key

\* signaling.decode.  The result is the dictionary it returns, or Raises.
decode(key) ==
    LET key1 == strip(key) IN
    IF ~B64WellFormed(key1) THEN Raises
    ELSE LET bytes == b64decode(key1) IN
         IF ~Utf8Valid(bytes) THEN Raises
         ELSE LET data == Loads(Utf8Decode(bytes)) IN
              IF ~data.ok THEN Raises
              ELSE IF ~HasMember(data.value, <<"t", "y", "p", "e">>)
                      \/ ~HasMember(data.value, <<"s", "d", "p">>)
                   THEN Raises
                   ELSE Returns([type |-> Member(data.value, <<"t", "y", "p", "e">>),
                                 sdp |-> Member(data.value, <<"s", "d", "p">>)])

----------------------------------------------------------------------------
\* file_transfer.FileTransfer.__init__ (filename and chunks_received are left
\* out).  obj tells the objects send_file creates apart; a table entry has 0.
FileTransfer(size, checksum, tid, obj) ==
    [transfer_id |-> tid, file_size |-> size, checksum |-> checksum,
     bytes_received |-> 0, is_complete |-> FALSE, file_handle |-> None,
     temp_path |-> NoId, save_path |-> None, obj |-> obj]

\* the value of a field that refers to no FileTransfer, and to no timer task
NoTransfer == FileTransfer(0, NoId, NoId, -1)
NoTimer == [transfer_id |-> NoId, fired |-> FALSE]

(* RTCPeer.__init__ *)

NewSession ==
    [ \* the object self.pc refers to, by its connectionState; None: self.pc is None
      pc |-> "new",
      \* close() of that transport object has been called and has not returned
      pc_closing |-> FALSE,
      \* handler invocations of connectionstatechange scheduled, not yet run
      pending |-> 0,
      \* the object self.channel refers to, by its readyState; None: no channel
      channel |-> None,
      \* a channel object no longer referenced still owes its "close" event
      orphan_close_pending |-> FALSE,
      is_initiator |-> FALSE,
      original_offer |-> None,
      original_answer |-> None,
      original_remote_offer |-> None,
      original_remote_answer |-> None,
      \* localDescription and remoteDescription of the transport object
      \* self.pc refers to (of the one it referred to last, with self.pc None)
      local_description |-> None,
      remote_description |-> None,
      reconnection_enabled |-> TRUE,
      reconnection_attempts |-> 0,
      max_reconnection_attempts |-> 5,
      reconnection_delay |-> Sec(2),
      max_reconnection_delay |-> Sec(30),
      \* None, or the position of the task: "start" (created, not yet run),
      \* "sleep", "closing", "replay", "retry_sleep", or "done" (a finished
      \* task still referenced)
      reconnection_task |-> None,
      heartbeat_interval |-> 1,
      \* None, or "start" (created, not yet run), "sleep", "done"
      heartbeat_task |-> None,
      \* loop.time() - last_heartbeat_response in seconds, counted up to
      \* MaxTime; read only after _start_heartbeat has set it to 0
      since_heartbeat_response |-> 0,
      \* position of the close() coroutine: "idle" or "await_pc_close"
      close_pos |-> "idle",
      \* FileTransferMixin.__init__
      \* the dict active_file_transfers, in insertion order
      active_file_transfers |-> <<>>,
      outgoing_file_transfer |-> NoTransfer,
      \* NoTimer, or the timer task: its transfer_id, and whether it has run
      file_offer_timer |-> NoTimer,
      \* the _send_file_chunks tasks alive: [pos, transfer, offset]
      send_tasks |-> <<>>,
      \* FileTransfer objects created by send_file so far
      sends |-> 0,
      \* the staging directory: the content of p2p_transfer_<id>, or NoFile
      disk |-> [path \in TransferIds |-> NoFile],
      \* staging file handles that are open and no longer referenced
      leaked_handles |-> 0,
      \* position of the create_initiator or accept_invite coroutine: "idle",
      \* or "ice_wait" (in the sleep of _wait_for_ice_gathering)
      handshake_pos |-> "idle",
      \* pc.iceGatheringState, and the candidates in pc.localDescription
      ice_gathering |-> "new",
      ice_candidates |-> 0,
      \* loop.time() - start_time of the wait, in sleeps of 0.1 s, counted up
      \* to one past the timeout
      ice_waited |-> 0,
      out |-> <<>> ]

\* RTCPeer.connection_state
connection_state(s) == IF s.pc # None THEN s.pc ELSE "closed"

\* RTCPeer.is_connected
is_connected(s) == s.pc = "connected" /\ s.channel = "open"

----------------------------------------------------------------------------
(* FileTransferMixin: the transfer table and the staging directory. *)

\* one statement after another: the session v, once computed, is handed to Op
Then(v, Op(_)) == CHOOSE r \in { Op(x) : x \in {v} } : TRUE

\* The dict active_file_transfers as a sequence in insertion order.
InTable(s, tid) == \E i \in DOMAIN s.active_file_transfers :
                       s.active_file_transfers[i].transfer_id = tid
IndexOf(s, tid) == CHOOSE i \in DOMAIN s.active_file_transfers :
                       s.active_file_transfers[i].transfer_id = tid
Get(s, tid) == s.active_file_transfers[IndexOf(s, tid)]
\* d[tid] = t: a key already present keeps its place
Put(s, t) ==
    IF InTable(s, t.transfer_id)
    THEN [s EXCEPT !.active_file_transfers[IndexOf(s, t.transfer_id)] = t]
    ELSE [s EXCEPT !.active_file_transfers = Append(@, t)]
\* del d[tid]
Del(s, tid) ==
    [s EXCEPT !.active_file_transfers = SelectSeq(@, LAMBDA t : t.transfer_id # tid)]

\* the staging path of a transfer: <appdir>/p2p_transfer_<transfer_id>
StagingPath(tid) == tid

\* handles open on staging files: those the table holds and those it lost
OpenHandles(s) ==
    Cardinality({ i \in DOMAIN s.active_file_transfers :
                      s.active_file_transfers[i].file_handle # None })
    + s.leaked_handles

\* FileTransferMixin._send_file_control
_send_file_control(s, m) ==
    IF s.channel = "open"
    THEN [s EXCEPT !.out = Append(@, Item("send", m.type, m.transfer_id, m))]
    ELSE s

\* FileTransferMixin._cleanup_file_transfer
_cleanup_file_transfer(s, tid) ==
    IF ~InTable(s, tid) THEN s
    ELSE LET t == Get(s, tid)
             s1 == IF t.file_handle # None THEN call(s, "file_handle.close", tid) ELSE s
             s2 == IF t.temp_path # NoId /\ s1.disk[t.temp_path].exists
                   THEN call([s1 EXCEPT !.disk[t.temp_path] = NoFile], "os.remove", tid)
                   ELSE s1
         IN  Del(s2, tid)

RECURSIVE CleanupAll(_, _)
CleanupAll(s, ids) ==
    IF ids = <<>> THEN s
    ELSE CleanupAll(_cleanup_file_transfer(s, Head(ids)), Tail(ids))

\* FileTransferMixin._cleanup_file_transfers
_cleanup_file_transfers(s) ==
    LET ids == [i \in DOMAIN s.active_file_transfers |->
                    s.active_file_transfers[i].transfer_id]
    IN  [CleanupAll(s, ids) EXCEPT !.outgoing_file_transfer = NoTransfer]

\* A mutant: the transfer is completed without its checksum being verified.
Mutant_complete_unverified(s, tid) ==
    IF ~InTable(s, tid) THEN s
    ELSE LET t == Get(s, tid) IN
         IF t.is_complete THEN s
         ELSE emit(Put(s, [t EXCEPT !.file_handle = None, !.is_complete = TRUE]),
                   "file_completed", tid)

\* A mutant: a transfer that is complete already is completed again.
Mutant_complete_again(s, tid) ==
    IF ~InTable(s, tid) THEN s
    ELSE LET t  == Get(s, tid)
             t1 == [t EXCEPT !.file_handle = None]
             s1 == Put(s, t1)
         IN  IF /\ t1.temp_path # NoId
                /\ s1.disk[t1.temp_path].exists
                /\ verify_file_integrity(s1.disk[t1.temp_path].data, t1.checksum)
             THEN emit(Put(s1, [t1 EXCEPT !.is_complete = TRUE]),
                       "file_completed", tid)
             ELSE _cleanup_file_transfer(
                      emit_file_error(s1, tid,
                          IF t1.temp_path = NoId THEN "No temporary file path set"
                          ELSE IF ~s1.disk[t1.temp_path].exists
                               THEN "Temporary file not found"
                               ELSE "File integrity check failed"),
                      tid)

\* FileTransferMixin._complete_file_transfer
_complete_file_transfer(s, tid) ==
    IF ~InTable(s, tid) THEN s
    ELSE LET t == Get(s, tid) IN
         IF t.is_complete THEN s
         ELSE LET \* flush, fsync and close the handle
                  t1 == [t EXCEPT !.file_handle = None]
                  s1 == Put(s, t1)
              IN  IF /\ t1.temp_path # NoId
                     /\ s1.disk[t1.temp_path].exists
                     /\ verify_file_integrity(s1.disk[t1.temp_path].data, t1.checksum)
                  THEN emit(Put(s1, [t1 EXCEPT !.is_complete = TRUE]),
                            "file_completed", tid)
                  ELSE \* FileSecurityViolation, caught at the end of the method
                       _cleanup_file_transfer(
                           emit_file_error(s1, tid,
                               IF t1.temp_path = NoId THEN "No temporary file path set"
                               ELSE IF ~s1.disk[t1.temp_path].exists
                                    THEN "Temporary file not found"
                                    ELSE "File integrity check failed"),
                           tid)

\* the first transfer of the table that is not complete and has a handle
ReceivingIndex(s) ==
    LET ok == { i \in DOMAIN s.active_file_transfers :
                  /\ ~s.active_file_transfers[i].is_complete
                  /\ s.active_file_transfers[i].file_handle # None }
    IN  IF ok = {} THEN 0 ELSE CHOOSE i \in ok : \A j \in ok : i <= j

\* A mutant: a chunk is counted and not written to the staging file.
Mutant_binary_message_unwritten(s, data) ==
    LET i == ReceivingIndex(s) IN
    IF i = 0 THEN warn(s, "no_active_transfer")
    ELSE LET t  == s.active_file_transfers[i]
             t1 == [t EXCEPT !.bytes_received = @ + Len(data)]
             s1 == Put(s, t1)
         IN  IF t1.bytes_received >= t1.file_size
             THEN Then(emit(s1, "file_progress", t.transfer_id),
                       LAMBDA x : _complete_file_transfer(x, t.transfer_id))
             ELSE s1

\* FileTransferMixin._handle_binary_message
_handle_binary_message(s, data) ==
    LET i == ReceivingIndex(s) IN
    IF i = 0 THEN warn(s, "no_active_transfer")
    ELSE LET t  == s.active_file_transfers[i]
             t1 == [t EXCEPT !.bytes_received = @ + Len(data)]
             s1 == [Put(s, t1) EXCEPT !.disk[t.temp_path].data = @ \o data]
             s2 == IF t1.bytes_received % (1024 * 1024) = 0
                   THEN emit(s1, "file_progress", t.transfer_id) ELSE s1
         IN  IF t1.bytes_received >= t1.file_size
             THEN Then(emit(s2, "file_progress", t.transfer_id),
                       LAMBDA x : _complete_file_transfer(x, t.transfer_id))
             ELSE s2

\* security.validate_file_transfer, the part that looks at the size
ValidSize(size) == size > 0 /\ size <= MAX_FILE_SIZE

\* A mutant: an offer that has its four fields is taken as it is.
Mutant_offer_unvalidated(s, m) ==
    IF \/ m.filename = NoId \/ m.file_size = 0
       \/ m.checksum = NoId \/ m.transfer_id = NoId
    THEN _send_file_control(s, Ctl("file_reject", m.transfer_id))
    ELSE LET lost == IF InTable(s, m.transfer_id)
                        /\ Get(s, m.transfer_id).file_handle # None
                     THEN 1 ELSE 0
             s1 == [s EXCEPT !.leaked_handles = @ + lost]
         IN  emit(Put(s1, FileTransfer(m.file_size, m.checksum, m.transfer_id, 0)),
                  "file_offer", m.transfer_id)

\* FileTransferMixin._handle_file_offer
_handle_file_offer(s, m) ==
    IF \/ m.filename = NoId \/ m.file_size = 0
       \/ m.checksum = NoId \/ m.transfer_id = NoId
       \/ ~validate_file_transfer(m.filename, m.file_size, TRUE).ok
    THEN _send_file_control(s, Ctl("file_reject", m.transfer_id))
    ELSE LET lost == IF InTable(s, m.transfer_id)
                        /\ Get(s, m.transfer_id).file_handle # None
                     THEN 1 ELSE 0
             s1 == [s EXCEPT !.leaked_handles = @ + lost]
         IN  emit(Put(s1, FileTransfer(m.file_size, m.checksum, m.transfer_id, 0)),
                  "file_offer", m.transfer_id)

\* A mutant: an accept leaves the offer timer running.
Mutant_accept_keeps_timer(s, m) ==
    IF /\ m.transfer_id # NoId
       /\ s.outgoing_file_transfer # NoTransfer
       /\ s.outgoing_file_transfer.transfer_id = m.transfer_id
    THEN [emit(s, "file_accepted", m.transfer_id) EXCEPT !.send_tasks =
             Append(@, [pos |-> "start", transfer |-> NoTransfer, offset |-> 0])]
    ELSE s

\* FileTransferMixin._handle_file_accept
_handle_file_accept(s, m) ==
    IF /\ m.transfer_id # NoId
       /\ s.outgoing_file_transfer # NoTransfer
       /\ s.outgoing_file_transfer.transfer_id = m.transfer_id
    THEN LET s1 == emit([s EXCEPT !.file_offer_timer = NoTimer],
                        "file_accepted", m.transfer_id)
         IN  [s1 EXCEPT !.send_tasks =
                  Append(@, [pos |-> "start", transfer |-> NoTransfer, offset |-> 0])]
    ELSE s

\* FileTransferMixin._handle_file_reject
_handle_file_reject(s, m) ==
    LET s1 == [s EXCEPT !.file_offer_timer = NoTimer]
        s2 == IF /\ s1.outgoing_file_transfer # NoTransfer
                 /\ s1.outgoing_file_transfer.transfer_id = m.transfer_id
              THEN [s1 EXCEPT !.outgoing_file_transfer = NoTransfer] ELSE s1
    IN  emit(s2, "file_rejected", m.transfer_id)

\* FileTransferMixin._handle_file_start
_handle_file_start(s, m) ==
    IF InTable(s, m.transfer_id) THEN emit(s, "file_started", m.transfer_id) ELSE s

\* FileTransferMixin._handle_file_end
_handle_file_end(s, m) ==
    IF InTable(s, m.transfer_id) THEN _complete_file_transfer(s, m.transfer_id) ELSE s

\* A mutant: an error the remote peer reports closes the data channel.
Mutant_file_error_closes_channel(s, m) ==
    [_cleanup_file_transfer(emit_file_error(s, m.transfer_id, "Unknown error"),
                            m.transfer_id)
        EXCEPT !.channel = "closed"]

\* FileTransferMixin._handle_file_error
_handle_file_error(s, m) ==
    _cleanup_file_transfer(emit_file_error(s, m.transfer_id, "Unknown error"),
                           m.transfer_id)

\* FileTransferMixin._handle_file_cancel
_handle_file_cancel(s, m) ==
    LET s1 == _cleanup_file_transfer(emit(s, "file_cancelled", m.transfer_id),
                                     m.transfer_id)
    IN  IF /\ s1.outgoing_file_transfer # NoTransfer
           /\ s1.outgoing_file_transfer.transfer_id = m.transfer_id
        THEN [s1 EXCEPT !.outgoing_file_transfer = NoTransfer] ELSE s1

\* FileTransferMixin._handle_file_timeout: the handle is closed and the entry
\* deleted; the staging file is not removed
_handle_file_timeout(s, m) ==
    LET s1 == IF InTable(s, m.transfer_id) /\ Get(s, m.transfer_id).file_handle # None
              THEN call(s, "file_handle.close", m.transfer_id) ELSE s
    IN  emit(Del(s1, m.transfer_id), "file_timeout", m.transfer_id)

\* FileTransferMixin._handle_file_control_message
_handle_file_control_message(s, m) ==
    CASE m.type = "file_offer"   -> _handle_file_offer(s, m)
      [] m.type = "file_accept"  -> _handle_file_accept(s, m)
      [] m.type = "file_reject"  -> _handle_file_reject(s, m)
      [] m.type = "file_timeout" -> _handle_file_timeout(s, m)
      [] m.type = "file_start"   -> _handle_file_start(s, m)
      [] m.type = "file_end"     -> _handle_file_end(s, m)
      [] m.type = "file_error"   -> _handle_file_error(s, m)
      [] m.type = "file_cancel"  -> _handle_file_cancel(s, m)
      [] OTHER -> warn(s, "unknown_control_message")

----------------------------------------------------------------------------
(* Heartbeat and reconnection tasks. *)

\* RTCPeer._start_heartbeat
_start_heartbeat(s) ==
    IF s.heartbeat_task \notin {None, "done"} THEN s
    ELSE [s EXCEPT !.since_heartbeat_response = 0, !.heartbeat_task = "start"]

\* RTCPeer._stop_heartbeat: the task is cancelled at the await it waits in
_stop_heartbeat(s) ==
    IF s.heartbeat_task = None THEN s
    ELSE [call(s, "heartbeat_task.cancel", NoId) EXCEPT !.heartbeat_task = None]

\* RTCPeer._stop_reconnection: the task is cancelled at the await it waits in
_stop_reconnection(s) ==
    IF s.reconnection_task = None THEN s
    ELSE [call(s, "reconnection_task.cancel", NoId) EXCEPT !.reconnection_task = None]

\* A mutant: the bound on the attempt counter is not checked.
Mutant_attempt_reconnection_unbounded(s) ==
    IF s.reconnection_task \notin {None, "done"} THEN s
    ELSE [emit([s EXCEPT !.reconnection_attempts = @ + 1], "reconnection_attempt", NoId)
             EXCEPT !.reconnection_task = "start"]

\* A mutant: an attempt is started whether or not a task is running.
Mutant_attempt_reconnection_unguarded(s) ==
    IF s.reconnection_attempts >= s.max_reconnection_attempts
    THEN emit(s, "reconnection_failed", NoId)
    ELSE [emit([s EXCEPT !.reconnection_attempts = @ + 1], "reconnection_attempt", NoId)
             EXCEPT !.reconnection_task = "start"]

\* RTCPeer._attempt_reconnection
_attempt_reconnection(s) ==
    IF s.reconnection_task \notin {None, "done"} THEN s
    ELSE IF s.reconnection_attempts >= s.max_reconnection_attempts
         THEN emit(s, "reconnection_failed", NoId)
         ELSE [emit([s EXCEPT !.reconnection_attempts = @ + 1], "reconnection_attempt", NoId)
                  EXCEPT !.reconnection_task = "start"]

----------------------------------------------------------------------------
(* FileTransferMixin: the public methods, the offer timer, the chunk task. *)

\* FileTransferMixin.send_file, for the file holding c.  A call that raises
\* ("not connected", "already in progress") leaves the session as it was.
send_file(s, c) ==
    IF ~is_connected(s) \/ s.outgoing_file_transfer # NoTransfer THEN s
    ELSE IF ~ValidSize(Len(c)) THEN s
    ELSE LET tid == TransferIdOf(c)
             t   == [FileTransfer(Len(c), calculate_file_checksum(c), tid, s.sends + 1)
                        EXCEPT !.temp_path = c]
             s1  == [s EXCEPT !.outgoing_file_transfer = t, !.sends = @ + 1]
             s2  == _send_file_control(s1,
                        Msg("file_offer", tid, t.file_size, t.checksum, <<>>))
         IN  \* _start_file_offer_timeout: the old timer is cancelled
             [s2 EXCEPT !.file_offer_timer = [transfer_id |-> tid, fired |-> FALSE]]

\* FileTransferMixin.accept_file: open(temp_path, 'wb') creates the staging
\* file or empties it; a handle the transfer held before is lost open.
accept_file(s, tid) ==
    IF ~InTable(s, tid) THEN _send_file_control(s, Ctl("file_reject", tid))
    ELSE LET t    == Get(s, tid)
             lost == IF t.file_handle # None THEN 1 ELSE 0
             s1   == Put(s, [t EXCEPT !.temp_path = StagingPath(tid),
                                      !.file_handle = "open",
                                      !.save_path = "chosen"])
             s2   == [s1 EXCEPT !.disk[StagingPath(tid)] = File(<<>>),
                                !.leaked_handles = @ + lost]
         IN  _send_file_control(s2, Ctl("file_accept", tid))

\* FileTransferMixin.reject_file
reject_file(s, tid) ==
    _cleanup_file_transfer(_send_file_control(s, Ctl("file_reject", tid)), tid)

\* FileTransferMixin.cancel_file_transfer
cancel_file_transfer(s, tid) ==
    LET s1 == _cleanup_file_transfer(_send_file_control(s, Ctl("file_cancel", tid)), tid)
    IN  IF /\ s1.outgoing_file_transfer # NoTransfer
           /\ s1.outgoing_file_transfer.transfer_id = tid
        THEN [s1 EXCEPT !.outgoing_file_transfer = NoTransfer] ELSE s1

\* FileTransferMixin._file_offer_timeout_handler, when its sleep ends
_file_offer_timeout_handler(s) ==
    LET tid == s.file_offer_timer.transfer_id
        s1  == [s EXCEPT !.file_offer_timer.fired = TRUE]
    IN  IF /\ s1.outgoing_file_transfer # NoTransfer
           /\ s1.outgoing_file_transfer.transfer_id = tid
        THEN emit([_send_file_control(s1, Ctl("file_timeout", tid))
                      EXCEPT !.outgoing_file_transfer = NoTransfer],
                  "file_timeout", tid)
        ELSE s1

RemoveAt(seq, i) == [j \in 1..(Len(seq) - 1) |-> IF j < i THEN seq[j] ELSE seq[j + 1]]

\* the bytes f.read(file_chunk_size) returns at an offset of the source file
ReadChunk(c, offset) == SubSeq(c, offset + 1, Min(offset + file_chunk_size, Len(c)))

\* FileTransferMixin._send_file_chunks, the loop from its top to the sleep
\* after a chunk, or to the end of the task.  (Progress events after 10
\* chunks and keepalives after 25 are beyond the files of the model.)
SendLoop(s, i, tr, offset) ==
    IF s.channel # "open"
    THEN \* "Data channel closed during transfer": the except branch
         [emit_file_error(_send_file_control(s, Ctl("file_error", tr.transfer_id)),
                          tr.transfer_id, "Data channel closed during transfer")
            EXCEPT !.outgoing_file_transfer = NoTransfer,
                   !.send_tasks = RemoveAt(@, i)]
    ELSE LET chunk == ReadChunk(tr.temp_path, offset) IN
         IF chunk = <<>>
         THEN [emit(_send_file_control(s, Ctl("file_end", tr.transfer_id)),
                    "file_sent", tr.transfer_id)
                 EXCEPT !.outgoing_file_transfer = NoTransfer,
                        !.send_tasks = RemoveAt(@, i)]
         ELSE [s EXCEPT !.out = Append(@, Item("send", "chunk", tr.transfer_id,
                                               Msg("chunk", NoId, 0, NoId, chunk))),
                        !.send_tasks[i] = [pos |-> "stream", transfer |-> tr,
                                           offset |-> offset + Len(chunk)]]

\* FileTransferMixin._send_file_chunks: one run of task i of send_tasks
_send_file_chunks(s, i) ==
    LET task == s.send_tasks[i] IN
    IF task.pos = "start"
    THEN IF s.outgoing_file_transfer = NoTransfer
         THEN [s EXCEPT !.send_tasks = RemoveAt(@, i)]
         ELSE LET tr == s.outgoing_file_transfer
              IN  SendLoop(_send_file_control(s, Ctl("file_start", tr.transfer_id)),
                           i, tr, 0)
    ELSE SendLoop(s, i, task.transfer, task.offset)

\* RTCPeer._heartbeat_loop: the first test of its while
HeartbeatFirst(s) ==
    [s EXCEPT !.heartbeat_task = IF is_connected(s) THEN "sleep" ELSE "done"]

\* A mutant: a missing heartbeat response makes the loop reconnect.
Mutant_heartbeat_reconnects(s) ==
    LET s1 == [s EXCEPT !.since_heartbeat_response =
                            Min(@ + s.heartbeat_interval, MaxTime)] IN
    IF s1.channel = "open"
    THEN LET s2 == [s1 EXCEPT !.out = Append(@, Item("send", "heartbeat", NoId,
                                                     Ctl("heartbeat", NoId)))]
             s3 == IF s2.since_heartbeat_response > (s2.heartbeat_interval * 10)
                   THEN _attempt_reconnection(warn(s2, "heartbeat_timeout")) ELSE s2
         IN  [s3 EXCEPT !.heartbeat_task = IF is_connected(s3) THEN "sleep" ELSE "done"]
    ELSE [s1 EXCEPT !.heartbeat_task = "done"]

\* RTCPeer._heartbeat_loop: from the end of its sleep to the next sleep
HeartbeatWake(s) ==
    LET s1 == [s EXCEPT !.since_heartbeat_response =
                            Min(@ + s.heartbeat_interval, MaxTime)] IN
    IF s1.channel = "open"
    THEN LET s2 == [s1 EXCEPT !.out = Append(@, Item("send", "heartbeat", NoId,
                                                     Ctl("heartbeat", NoId)))]
             s3 == IF s2.since_heartbeat_response > (s2.heartbeat_interval * 10)
                   THEN warn(s2, "heartbeat_timeout") ELSE s2
         IN  [s3 EXCEPT !.heartbeat_task = IF is_connected(s3) THEN "sleep" ELSE "done"]
    ELSE [s1 EXCEPT !.heartbeat_task = "done"]

\* RTCPeer._handle_text_message
\* json.loads of a text, as far as _handle_text_message looks at it, for the
\* texts of the model.  A JSON string literal, its quotes included, is one
\* element of a text; whitespace between the tokens is skipped.  The texts
\* that parse to a dict are the objects of one member; any other text is no
\* JSON or no dict.
JsonStrings == { "type", "text", "heartbeat", "heartbeat_response", "file_reject" }
JsonObject(text) ==
    LET x == SelectSeq(text, LAMBDA c : c \notin Whitespace) IN
    IF /\ Len(x) = 5 /\ x[1] = "{" /\ x[2] \in JsonStrings /\ x[3] = ":"
       /\ x[4] \in JsonStrings /\ x[5] = "}"
    THEN [ok |-> TRUE, name |-> x[2], value |-> x[4]]
    ELSE [ok |-> FALSE, name |-> None, value |-> None]

\* RTCPeer._handle_text_message, an object with a 'type' at hand
DispatchTyped(s, m) ==
    CASE m.type = "heartbeat" ->
             IF s.channel = "open"
             THEN [s EXCEPT !.out = Append(@, Item("send", "heartbeat_response", NoId,
                                                   Ctl("heartbeat_response", NoId)))]
             ELSE s
      [] m.type = "heartbeat_response" -> [s EXCEPT !.since_heartbeat_response = 0]
      [] OTHER -> _handle_file_control_message(s, m)

\* RTCPeer._handle_text_message.  A message of type "chat" is a text that
\* send() handed to the channel: the handler parses it like any other, and
\* surfaces it as a chat message when it is no JSON object with a 'type'.
_handle_text_message(s, m) ==
    IF m.type # "chat" THEN DispatchTyped(s, m)
    ELSE LET data == JsonObject(m.data) IN
         IF data.ok /\ data.name = "type"
         THEN DispatchTyped(s, Ctl(data.value, NoId))
         ELSE emit(s, "message", NoId)

\* A mutant: the message is handed to the channel as it was given.
Mutant_send_unsanitized(s, message) ==
    IF s.channel # "open" THEN emit(s, "error", NoId)
    ELSE IF ~sanitize_message(message).ok THEN emit(s, "error", NoId)
         ELSE [s EXCEPT !.out = Append(@, Item("send", "chat", NoId,
                                               Msg("chat", NoId, 0, NoId, message)))]

\* RTCPeer.send
send(s, message) ==
    IF s.channel # "open" THEN emit(s, "error", NoId)
    ELSE LET sanitized_message == sanitize_message(message) IN
         IF ~sanitized_message.ok THEN emit(s, "error", NoId)
         ELSE [s EXCEPT !.out = Append(@, Item("send", "chat", NoId,
                   Msg("chat", NoId, 0, NoId, sanitized_message.value)))]

\* RTCPeer._setup_data_channel.on_message
on_message(s, m) ==
    IF m.type = "chunk" THEN _handle_binary_message(s, m.data)
    ELSE _handle_text_message(s, m)

\* RTCPeer._setup_data_channel.on_close.  The handler reads self.channel.label
\* first: with self.channel None it raises before it cleans up.
on_close(s) ==
    IF s.channel = None THEN s
    ELSE _cleanup_file_transfers(emit(s, "channel_close", NoId))

\* A mutant: a Failed or Disconnected event starts an attempt whether or not
\* reconnection is enabled.
Mutant_reconnects_when_disabled(s) ==
    CASE s.pc = None -> s
      [] s.pc = "connected" ->
             _start_heartbeat([emit(s, "connected", NoId)
                                  EXCEPT !.reconnection_attempts = 0,
                                         !.reconnection_delay = Sec(2)])
      [] s.pc = "closed" ->
             _stop_reconnection(_stop_heartbeat(
                 _cleanup_file_transfers(emit(s, "closed", NoId))))
      [] s.pc = "failed" ->
             LET s1 == _stop_heartbeat(_cleanup_file_transfers(emit(s, "failed", NoId)))
             IN  IF s1.original_offer # None \/ s1.original_answer # None
                 THEN _attempt_reconnection(s1) ELSE s1
      [] s.pc = "disconnected" ->
             LET s1 == _stop_heartbeat(emit(s, "disconnected", NoId))
             IN  IF s1.original_offer # None \/ s1.original_answer # None
                 THEN _attempt_reconnection(s1) ELSE s1
      [] OTHER -> s

\* A mutant: the handler of a Closed event leaves the reconnection task alone.
Mutant_closed_keeps_reconnection(s) ==
    CASE s.pc = None -> s
      [] s.pc = "connected" ->
             _start_heartbeat([emit(s, "connected", NoId)
                                  EXCEPT !.reconnection_attempts = 0,
                                         !.reconnection_delay = Sec(2)])
      [] s.pc = "closed" ->
             _stop_heartbeat(_cleanup_file_transfers(emit(s, "closed", NoId)))
      [] s.pc = "failed" ->
             LET s1 == _stop_heartbeat(_cleanup_file_transfers(emit(s, "failed", NoId)))
             IN  IF /\ s1.reconnection_enabled
                    /\ (s1.original_offer # None \/ s1.original_answer # None)
                 THEN _attempt_reconnection(s1) ELSE s1
      [] s.pc = "disconnected" ->
             LET s1 == _stop_heartbeat(emit(s, "disconnected", NoId))
             IN  IF /\ s1.reconnection_enabled
                    /\ (s1.original_offer # None \/ s1.original_answer # None)
                 THEN _attempt_reconnection(s1) ELSE s1
      [] OTHER -> s

\* RTCPeer._on_connection_state_change
_on_connection_state_change(s) ==
    CASE s.pc = None -> s
      [] s.pc = "connected" ->
             _start_heartbeat([emit(s, "connected", NoId)
                                  EXCEPT !.reconnection_attempts = 0,
                                         !.reconnection_delay = Sec(2)])
      [] s.pc = "closed" ->
             _stop_reconnection(_stop_heartbeat(
                 _cleanup_file_transfers(emit(s, "closed", NoId))))
      [] s.pc = "failed" ->
             LET s1 == _stop_heartbeat(_cleanup_file_transfers(emit(s, "failed", NoId)))
             IN  IF /\ s1.reconnection_enabled
                    /\ (s1.original_offer # None \/ s1.original_answer # None)
                 THEN _attempt_reconnection(s1) ELSE s1
      [] s.pc = "disconnected" ->
             LET s1 == _stop_heartbeat(emit(s, "disconnected", NoId))
             IN  IF /\ s1.reconnection_enabled
                    /\ (s1.original_offer # None \/ s1.original_answer # None)
                 THEN _attempt_reconnection(s1) ELSE s1
      [] OTHER -> s

\* RTCPeer.set_reconnection_config
set_reconnection_config(s, max_attempts, initial_delay, max_delay) ==
    [s EXCEPT !.max_reconnection_attempts = max_attempts,
              !.reconnection_delay = initial_delay,
              !.max_reconnection_delay = max_delay]

\* RTCPeer.enable_reconnection
enable_reconnection(s, enabled) == [s EXCEPT !.reconnection_enabled = enabled]

\* RTCPeerConnection.setLocalDescription and setRemoteDescription of the
\* transport self.pc refers to, when they succeed
setLocalDescription(s, description) ==
    [s EXCEPT !.local_description = description,
              !.out = Append(@, Item("pc", "setLocalDescription", NoId, Ctl(description, NoId)))]
setRemoteDescription(s, description) ==
    [s EXCEPT !.remote_description = description,
              !.out = Append(@, Item("pc", "setRemoteDescription", NoId, Ctl(description, NoId)))]

\* RTCPeer.create_initiator.  createDataChannel raises without a transport
\* or on a closed one; is_initiator is set before.
create_initiator(s) ==
    LET s1 == [s EXCEPT !.is_initiator = TRUE] IN
    IF s1.pc \in {None, "closed"} THEN emit(s1, "error", NoId)
    ELSE [setLocalDescription(s1, "offer")
              EXCEPT !.channel = "connecting",
                     !.orphan_close_pending = @ \/ s.channel \in {"connecting", "open"},
                     !.original_offer = "offer"]

\* RTCPeer.accept_invite, with an invite key that is valid or not
accept_invite(s, key_ok) ==
    LET s1 == [s EXCEPT !.is_initiator = FALSE] IN
    IF ~key_ok \/ s1.pc \in {None, "closed"} THEN emit(s1, "error", NoId)
    ELSE [setLocalDescription(setRemoteDescription(s1, "offer"), "answer")
              EXCEPT !.original_remote_offer = "offer", !.original_answer = "answer"]

\* The end of create_initiator and accept_invite: encode(self.pc.localDescription)
\* is returned; without a transport the attribute access raises.
HandshakeReturn(s) ==
    IF s.pc = None THEN emit([s EXCEPT !.handshake_pos = "idle"], "error", NoId)
    ELSE [s EXCEPT !.handshake_pos = "idle",
                   !.out = Append(@, Item("return", "key", NoId,
                                          [description |-> s.local_description,
                                           candidates |-> s.ice_candidates]))]

\* A mutant: the wait has no timeout.
Mutant_wait_without_timeout(s) ==
    IF s.pc = None \/ s.ice_gathering = "complete" THEN HandshakeReturn(s)
    ELSE [s EXCEPT !.handshake_pos = "ice_wait"]

\* RTCPeer._wait_for_ice_gathering, from the test of its loop to the sleep or
\* to the end of the call that waits
_wait_for_ice_gathering(s) ==
    IF s.pc = None \/ s.ice_gathering = "complete" THEN HandshakeReturn(s)
    ELSE IF s.ice_waited > ICE_TIMEOUT THEN HandshakeReturn(s)
    ELSE [s EXCEPT !.handshake_pos = "ice_wait"]

\* A mutant: the role is not checked.
Mutant_receive_return_key_any_role(s, key_ok) ==
    IF ~key_ok THEN emit(s, "error", NoId)
    ELSE LET s1 == [s EXCEPT !.original_remote_answer = "answer"] IN
         IF \/ s1.pc \in {None, "closed"}
            \/ s1.local_description # "offer" \/ s1.remote_description # None
         THEN emit(s1, "error", NoId)
         ELSE setRemoteDescription(s1, "answer")

\* RTCPeer.receive_return_key, with a return key that validate_invite_key and
\* decode accept or not.  The answer is stored before it is applied; the
\* transport takes an answer only while it holds a local offer and no remote
\* description, and raises otherwise.
receive_return_key(s, key_ok) ==
    IF ~s.is_initiator THEN emit(s, "error", NoId)
    ELSE IF ~key_ok THEN emit(s, "error", NoId)
    ELSE LET s1 == [s EXCEPT !.original_remote_answer = "answer"] IN
         IF \/ s1.pc \in {None, "closed"}
            \/ s1.local_description # "offer" \/ s1.remote_description # None
         THEN emit(s1, "error", NoId)
         ELSE setRemoteDescription(s1, "answer")

\* RTCPeer._reconnect_as_initiator and _reconnect_as_joiner: the descriptions
\* they apply to the new transport, in order
ReplayedDescriptions(s) ==
    IF s.is_initiator
    THEN << [set |-> "local", description |-> s.original_offer] >>
    ELSE (IF s.original_remote_offer # None
          THEN << [set |-> "remote", description |-> s.original_remote_offer] >>
          ELSE << >>)
         \o << [set |-> "local", description |-> s.original_answer] >>

\* the first n of them are applied
RECURSIVE Replay(_, _)
Replay(s, n) ==
    IF n = 0 THEN s
    ELSE LET d == ReplayedDescriptions(s)[n] IN
         IF d.set = "local" THEN setLocalDescription(Replay(s, n - 1), d.description)
         ELSE setRemoteDescription(Replay(s, n - 1), d.description)

\* RTCPeer._perform_reconnection: _setup_peer_connection and the replay of the
\* stored descriptions, up to the await of the new transport
ReconnectionSetup(s) ==
    LET s1 == [s EXCEPT !.pc = "new", !.pc_closing = FALSE,
                        !.local_description = None, !.remote_description = None] IN
    IF s1.is_initiator /\ s1.original_offer # None
    THEN \* _reconnect_as_initiator
         [s1 EXCEPT !.channel = "connecting",
                    !.orphan_close_pending = @ \/ s.channel \in {"connecting", "open"},
                    !.reconnection_task = "replay"]
    ELSE IF ~s1.is_initiator /\ s1.original_answer # None
    THEN \* _reconnect_as_joiner
         [s1 EXCEPT !.reconnection_task = "replay"]
    ELSE [emit(s1, "reconnection_failed", NoId) EXCEPT !.reconnection_task = "done"]

\* A mutant: the backoff is not capped at max_reconnection_delay.
Mutant_backoff_uncapped(s) ==
    LET s1 == [s EXCEPT !.reconnection_delay = Mul15(@)]
    IN  IF s1.pc # None /\ s1.pc # "closed" /\ ~s1.pc_closing
        THEN [s1 EXCEPT !.pc_closing = TRUE, !.reconnection_task = "closing"]
        ELSE ReconnectionSetup(s1)

\* RTCPeer._perform_reconnection: from the end of its sleep to the await of
\* the old transport's close().  close() of no transport, or of one that is
\* closed or closing, does not suspend the task.
ReconnectionSlept(s) ==
    LET s1 == [s EXCEPT !.reconnection_delay =
                            Min(Mul15(@), s.max_reconnection_delay)]
    IN  IF s1.pc # None /\ s1.pc # "closed" /\ ~s1.pc_closing
        THEN [s1 EXCEPT !.pc_closing = TRUE, !.reconnection_task = "closing"]
        ELSE ReconnectionSetup(s1)

\* RTCPeer._perform_reconnection: the replay ends, well or with an exception
\* (a transport error after n descriptions were applied, or the timeout of
\* the wait for ICE gathering after all of them were)
ReconnectionReplayed(s, ok, n) ==
    LET s1 == Replay(s, n) IN
    IF ok THEN [s1 EXCEPT !.reconnection_task = "done"]
    ELSE IF s1.reconnection_attempts < s1.max_reconnection_attempts
         THEN [s1 EXCEPT !.reconnection_task = "retry_sleep"]
         ELSE [emit(s1, "reconnection_failed", NoId) EXCEPT !.reconnection_task = "done"]

\* RTCPeer._perform_reconnection: after the sleep of the except branch, the
\* task calls _attempt_reconnection and ends.  The task that calls is the
\* one self.reconnection_task refers to, and it is not done.
ReconnectionRetry(s) ==
    [_attempt_reconnection(s) EXCEPT !.reconnection_task =
        IF s.reconnection_task = "retry_sleep" /\ @ = "retry_sleep" THEN "done" ELSE @]

\* RTCPeer.close, up to the await of the transport's close().  close() of a
\* transport that is closed or closing returns at once.
close_begin(s) ==
    LET s1 == _stop_heartbeat(_stop_reconnection([s EXCEPT !.reconnection_enabled = FALSE]))
        s2 == [s1 EXCEPT !.channel = None,
                         !.orphan_close_pending = @ \/ s.channel \in {"connecting", "open"}]
    IN  IF s2.pc = None THEN s2
        ELSE IF s2.pc = "closed" \/ s2.pc_closing
             THEN [s2 EXCEPT !.pc = None, !.pc_closing = FALSE]
             ELSE [s2 EXCEPT !.pc_closing = TRUE, !.close_pos = "await_pc_close"]

\* RTCPeer.close, after the await: self.pc = None
close_end(s) == [s EXCEPT !.pc = None, !.pc_closing = FALSE, !.close_pos = "idle"]

\* RTCPeer._on_datachannel: the channel the remote peer opened arrives
_on_datachannel(s) ==
    emit([s EXCEPT !.channel = "open",
                   !.orphan_close_pending = @ \/ s.channel \in {"connecting", "open"}],
         "channel_open", NoId)

\* RTCPeer._setup_data_channel.on_open
on_open(s) == emit(s, "channel_open", NoId)

----------------------------------------------------------------------------
(* The state machine. *)

\* no function is under study
NoValue == [op |-> None]

\* What is observed of a session besides its own state.
NoHistory ==
    [ \* the delay the last reconnection attempt began to sleep, and the one
      \* before it (-1: none)
      last |-> -1, prev |-> -1,
      \* no Connected event was handled between the starts of those two sleeps
      chained |-> FALSE,
      \* a Connected event was handled since the last sleep began
      reset |-> FALSE,
      \* close() has been called
      close_called |-> FALSE,
      \* an offer of this session has timed out
      timed_out |-> FALSE ]

\* main.P2PChatApp.__init__ and configure_reconnection: the peer is constructed
\* and then configured from the settings file, which nothing validates.
Configured(cfg) ==
    set_reconnection_config(enable_reconnection(NewSession, TRUE), cfg[1], cfg[2], cfg[3])

\* The remote end of every channel is any peer at all.  (Both peers of the
\* model run with the same settings.)
Init ==
    /\ val = NoValue
    /\ \E cfg \in ReconnectionConfigs : peer = [p \in Peers |-> Configured(cfg)]
    /\ net = [p \in Peers |-> <<>>]
    /\ hist = [linked |-> FALSE, of |-> [p \in Peers |-> NoHistory]]

\* every step begins with nothing emitted, sent or logged yet
Begin(s) == [s EXCEPT !.out = <<>>]

\* the messages a step handed to the data channel, in order
Outbox(s) ==
    LET sent == SelectSeq(s.out, LAMBDA o : o.kind = "send")
    IN  [i \in DOMAIN sent |-> sent[i].arg]

\* Peer p's session becomes s2.  With the two sessions linked, what p handed
\* to its data channel is in flight to the other peer, in order.
Update(p, s2) ==
    \E s \in {s2} :
        /\ val' = val
        /\ peer' = [peer EXCEPT ![p] = s]
        /\ IF hist.linked
           THEN /\ Len(net[Other(p)]) + Len(Outbox(s)) <= MaxInFlight
                /\ net' = [net EXCEPT ![Other(p)] = @ \o Outbox(s)]
           ELSE net' = net

\* The states the transport reports after a state (RTCPeerConnection's
\* connectionState; "closed" follows close() alone).
TransportNext(st) ==
    CASE st = "new"          -> {"connecting"}
      [] st = "connecting"   -> {"connected", "failed"}
      [] st = "connected"    -> {"disconnected", "failed"}
      [] st = "disconnected" -> {"connected", "failed"}
      [] OTHER               -> {}

\* enable_reconnection(False), as main's cleanup calls it
DisableReconnection(p) ==
    /\ peer[p].reconnection_enabled
    /\ Update(p, enable_reconnection(Begin(peer[p]), FALSE))
    /\ UNCHANGED hist

CreateInitiator(p) ==
    /\ peer[p].original_offer = None /\ peer[p].original_answer = None
    /\ ~peer[p].is_initiator
    /\ Update(p, create_initiator(Begin(peer[p])))
    /\ UNCHANGED hist

AcceptInvite(p) ==
    \E key_ok \in BOOLEAN :
        /\ peer[p].original_offer = None /\ peer[p].original_answer = None
        /\ Update(p, accept_invite(Begin(peer[p]), key_ok))
        /\ peer'[p] # peer[p]
        /\ UNCHANGED hist

\* The transport reports a new connection state: the handler is scheduled.
TransportEvent(p) ==
    \E st \in TransportNext(peer[p].pc) :
        /\ ~peer[p].pc_closing
        /\ peer[p].original_offer # None \/ peer[p].original_answer # None
        /\ peer[p].pending < MaxPending
        /\ Update(p, [Begin(peer[p]) EXCEPT !.pc = st, !.pending = @ + 1])
        /\ UNCHANGED hist

\* The transport whose close() was called reports "closed".
TransportClosed(p) ==
    /\ peer[p].pc_closing /\ peer[p].pc \notin {None, "closed"}
    /\ peer[p].pending < MaxPending
    /\ Update(p, [Begin(peer[p]) EXCEPT !.pc = "closed", !.pending = @ + 1])
    /\ UNCHANGED hist

\* A scheduled invocation of _on_connection_state_change runs.
ConnectionStateChange(p) ==
    /\ peer[p].pending > 0
    /\ Update(p, _on_connection_state_change([Begin(peer[p]) EXCEPT !.pending = @ - 1]))
    /\ hist' = IF peer[p].pc = "connected"
               THEN [hist EXCEPT !.of[p].reset = TRUE] ELSE hist

\* The initiator's data channel opens.
ChannelOpen(p) ==
    /\ peer[p].channel = "connecting"
    /\ peer[p].pc = "connected" /\ ~peer[p].pc_closing
    /\ Update(p, on_open([Begin(peer[p]) EXCEPT !.channel = "open"]))
    /\ UNCHANGED hist

\* The joiner receives the data channel of the initiator.
DataChannel(p) ==
    /\ ~peer[p].is_initiator /\ peer[p].original_answer # None
    /\ peer[p].pc = "connected" /\ ~peer[p].pc_closing
    /\ peer[p].channel # "open"
    /\ Update(p, _on_datachannel(Begin(peer[p])))
    /\ UNCHANGED hist

\* The channel self.channel refers to closes.
ChannelClosed(p) ==
    /\ peer[p].channel \in {"connecting", "open"}
    /\ Update(p, on_close([Begin(peer[p]) EXCEPT !.channel = "closed"]))
    /\ UNCHANGED hist

\* A channel the session no longer refers to closes: its handler still runs.
OrphanChannelClosed(p) ==
    /\ peer[p].orphan_close_pending
    /\ Update(p, on_close([Begin(peer[p]) EXCEPT !.orphan_close_pending = FALSE]))
    /\ UNCHANGED hist

\* The reconnection task runs first: it reads the delay and sleeps.
PerformReconnectionStart(p) ==
    /\ peer[p].reconnection_task = "start"
    /\ Update(p, [Begin(peer[p]) EXCEPT !.reconnection_task = "sleep"])
    /\ hist' = [hist EXCEPT !.of[p] =
                   [@ EXCEPT !.prev = hist.of[p].last,
                             !.last = peer[p].reconnection_delay,
                             !.chained = hist.of[p].last # -1 /\ ~hist.of[p].reset,
                             !.reset = FALSE]]

PerformReconnectionWake(p) ==
    /\ peer[p].reconnection_task = "sleep"
    /\ Update(p, ReconnectionSlept(Begin(peer[p])))
    /\ UNCHANGED hist

PerformReconnectionSetup(p) ==
    /\ peer[p].reconnection_task = "closing"
    /\ peer[p].pc = "closed"
    /\ Update(p, ReconnectionSetup(Begin(peer[p])))
    /\ UNCHANGED hist

PerformReconnectionReplayed(p) ==
    \E ok \in BOOLEAN, n \in 0..Len(ReplayedDescriptions(peer[p])) :
        /\ peer[p].reconnection_task = "replay"
        /\ ok => n = Len(ReplayedDescriptions(peer[p]))
        /\ Update(p, ReconnectionReplayed(Begin(peer[p]), ok, n))
        /\ UNCHANGED hist

\* The application pastes a return key.
ReceiveReturnKey(p) ==
    \E key_ok \in BOOLEAN :
        /\ Update(p, receive_return_key(call(Begin(peer[p]), "receive_return_key", NoId),
                                        key_ok))
        /\ UNCHANGED hist

PerformReconnectionRetry(p) ==
    /\ peer[p].reconnection_task = "retry_sleep"
    /\ Update(p, ReconnectionRetry(Begin(peer[p])))
    /\ UNCHANGED hist

HeartbeatLoopStart(p) ==
    /\ peer[p].heartbeat_task = "start"
    /\ Update(p, HeartbeatFirst(Begin(peer[p])))
    /\ UNCHANGED hist

HeartbeatLoopWake(p) ==
    /\ peer[p].heartbeat_task = "sleep"
    /\ Update(p, HeartbeatWake(Begin(peer[p])))
    /\ UNCHANGED hist

Close(p) ==
    /\ peer[p].close_pos = "idle"
    /\ Update(p, close_begin(Begin(peer[p])))
    /\ hist' = [hist EXCEPT !.of[p].close_called = TRUE]

\* pc.close() returns once the transport is closed
CloseReturn(p) ==
    /\ peer[p].close_pos = "await_pc_close"
    /\ peer[p].pc = "closed"
    /\ Update(p, close_end(Begin(peer[p])))
    /\ UNCHANGED hist

\* create_initiator is called and runs to its wait for the candidates;
\* setLocalDescription has started the gathering and may have finished it.
CreateInitiatorCall(p) ==
    \E g \in {"gathering", "complete"} :
        /\ peer[p].handshake_pos = "idle"
        /\ peer[p].original_offer = None /\ peer[p].original_answer = None
        /\ ~peer[p].is_initiator
        /\ LET s1 == create_initiator(Begin(peer[p])) IN
           IF peer[p].pc \in {None, "closed"} THEN Update(p, s1)
           ELSE Update(p, _wait_for_ice_gathering(
                              [s1 EXCEPT !.ice_gathering = g, !.ice_waited = 0]))
        /\ UNCHANGED hist

\* accept_invite is called, with a key that is valid or not.
AcceptInviteCall(p) ==
    \E key_ok \in BOOLEAN, g \in {"gathering", "complete"} :
        /\ peer[p].handshake_pos = "idle"
        /\ peer[p].original_offer = None /\ peer[p].original_answer = None
        /\ LET s1 == accept_invite(Begin(peer[p]), key_ok) IN
           IF ~key_ok \/ peer[p].pc \in {None, "closed"} THEN Update(p, s1)
           ELSE Update(p, _wait_for_ice_gathering(
                              [s1 EXCEPT !.ice_gathering = g, !.ice_waited = 0]))
        /\ peer'[p] # peer[p]
        /\ UNCHANGED hist

\* The transport gathers a candidate, or finishes gathering.
IceGathering(p) ==
    /\ peer[p].ice_gathering = "gathering"
    /\ peer[p].pc \notin {None, "closed"}
    /\ \/ /\ peer[p].ice_candidates < MaxCandidates
          /\ Update(p, [Begin(peer[p]) EXCEPT !.ice_candidates = @ + 1])
       \/ Update(p, [Begin(peer[p]) EXCEPT !.ice_gathering = "complete"])
    /\ UNCHANGED hist

\* asyncio.sleep(0.1) of the wait returns, after 0.1 s or somewhat later.
IceWaitWake(p) ==
    \E d \in {1, 2} :
        /\ peer[p].handshake_pos = "ice_wait"
        /\ Update(p, _wait_for_ice_gathering(
               [Begin(peer[p]) EXCEPT !.ice_waited = Min(@ + d, ICE_TIMEOUT + 1)]))
        /\ UNCHANGED hist

\* The connection life cycle of one session, the other end being any peer.
Solo == {"A"}

\* A handshake call, the gathering of the candidates it waits for, and the
\* close() that may come while it waits.
NextGather ==
    \E p \in Solo :
        \/ CreateInitiatorCall(p)
        \/ AcceptInviteCall(p)
        \/ IceGathering(p)
        \/ IceWaitWake(p)
        \/ Close(p)
        \/ TransportClosed(p)
        \/ ConnectionStateChange(p)
        \/ CloseReturn(p)

SpecGather == Init /\ [][NextGather]_vars /\ \A p \in Solo : WF_vars(IceWaitWake(p))

NextConn ==
    \E p \in Solo :
        \/ CreateInitiator(p)
        \/ AcceptInvite(p)
        \/ TransportEvent(p)
        \/ TransportClosed(p)
        \/ ConnectionStateChange(p)
        \/ ChannelOpen(p)
        \/ DataChannel(p)
        \/ ChannelClosed(p)
        \/ PerformReconnectionStart(p)
        \/ PerformReconnectionWake(p)
        \/ PerformReconnectionSetup(p)
        \/ PerformReconnectionReplayed(p)
        \/ PerformReconnectionRetry(p)
        \/ HeartbeatLoopStart(p)
        \/ Close(p)
        \/ CloseReturn(p)

SpecConn == Init /\ [][NextConn]_vars

\* The same sessions, with the configuration they were given kept beside
\* them: set_reconnection_config stores initial_delay in reconnection_delay,
\* which the reconnection attempts then overwrite.
InitConfigured ==
    /\ val = NoValue
    /\ net = [p \in Peers |-> <<>>]
    /\ \E cfg \in ReconnectionConfigs :
           /\ peer = [p \in Peers |-> Configured(cfg)]
           /\ hist = [linked |-> FALSE, of |-> [p \in Peers |-> NoHistory],
                      initial_delay |-> cfg[2]]

SpecConfigured == InitConfigured /\ [][NextConn]_vars

\* The same, with what the event loop owes: a task that sleeps wakes, the
\* replay of an attempt ends (its wait for ICE gathering is bounded), a
\* transport that is being closed reports it, a scheduled handler runs.
TaskStep(p) ==
    \/ PerformReconnectionStart(p)
    \/ PerformReconnectionWake(p)
    \/ PerformReconnectionSetup(p)
    \/ PerformReconnectionReplayed(p)
    \/ PerformReconnectionRetry(p)
    \/ TransportClosed(p)
    \/ ConnectionStateChange(p)

SpecReconnect ==
    /\ Init
    /\ [][NextConn]_vars
    /\ \A p \in Solo : WF_vars(TaskStep(p))

\* The handshake and the transports of one session: the keys the
\* application exchanges, and the reconnection that replays the descriptions.
NextHandshake ==
    \E p \in Solo :
        \/ CreateInitiator(p)
        \/ AcceptInvite(p)
        \/ ReceiveReturnKey(p)
        \/ TransportEvent(p)
        \/ TransportClosed(p)
        \/ ConnectionStateChange(p)
        \/ PerformReconnectionStart(p)
        \/ PerformReconnectionWake(p)
        \/ PerformReconnectionSetup(p)
        \/ PerformReconnectionReplayed(p)
        \/ PerformReconnectionRetry(p)
        \/ Close(p)
        \/ CloseReturn(p)

SpecHandshake == Init /\ [][NextHandshake]_vars

\* The application pastes a key that validate_invite_key or decode refuses
\* into accept_invite, at any time.
AcceptBadInvite(p) ==
    /\ Update(p, accept_invite(call(Begin(peer[p]), "accept_invite", NoId), FALSE))
    /\ UNCHANGED hist

\* The handshake, with the keys pasted into the wrong call.
NextMistake ==
    \/ NextHandshake
    \/ \E p \in Solo : AcceptBadInvite(p)

SpecMistake == Init /\ [][NextMistake]_vars

\* The remote peer's heartbeat traffic arrives on the open channel.
HeartbeatMessages == { Ctl("heartbeat", NoId), Ctl("heartbeat_response", NoId) }

ReceiveHeartbeat(p) ==
    \E m \in HeartbeatMessages :
        /\ peer[p].channel = "open"
        /\ Update(p, on_message(Begin(peer[p]), m))
        /\ UNCHANGED hist

\* The heartbeat loop of an initiator, with the transport events and the
\* reconnection attempts that go on beside it.
NextHeartbeat ==
    \E p \in Solo :
        \/ CreateInitiator(p)
        \/ TransportEvent(p)
        \/ TransportClosed(p)
        \/ ConnectionStateChange(p)
        \/ ChannelOpen(p)
        \/ ChannelClosed(p)
        \/ PerformReconnectionStart(p)
        \/ PerformReconnectionWake(p)
        \/ PerformReconnectionSetup(p)
        \/ PerformReconnectionReplayed(p)
        \/ PerformReconnectionRetry(p)
        \/ HeartbeatLoopStart(p)
        \/ HeartbeatLoopWake(p)
        \/ ReceiveHeartbeat(p)

\* Here the sessions are configured for a single reconnection attempt.
InitHeartbeat ==
    /\ Init
    /\ \A p \in Peers : peer[p].max_reconnection_attempts = 1

SpecHeartbeat == InitHeartbeat /\ [][NextHeartbeat]_vars

\* The same, with what the event loop owes the heartbeat: a scheduled
\* handler runs, a task that was created runs, a task that sleeps wakes.
HeartbeatStep(p) ==
    \/ ConnectionStateChange(p)
    \/ HeartbeatLoopStart(p)
    \/ HeartbeatLoopWake(p)

SpecBeat ==
    /\ InitHeartbeat
    /\ [][NextHeartbeat]_vars
    /\ \A p \in Solo : WF_vars(HeartbeatStep(p))

----------------------------------------------------------------------------
(* File transfers of one session, the other end being any peer. *)

\* What a remote peer may send for the files it offers: the offers, one
\* offer without a size, chunks, and the control messages of a sender.
SendIds == { TransferIdOf(c) : c \in SendFiles }
RemoteChunks == { <<0>>, <<1>> }
SenderControls == { "file_start", "file_end", "file_error", "file_cancel", "file_timeout" }
RemoteMessages ==
    { Msg("file_offer", TransferIdOf(c), Len(c), calculate_file_checksum(c), <<>>) :
          c \in OfferedFiles }
    \cup { Ctl("file_offer", TransferIdOf(<<0>>)) }
    \cup { Msg("chunk", NoId, 0, NoId, d) : d \in RemoteChunks }
    \cup { Ctl(type, tid) : type \in SenderControls, tid \in InboundIds }

\* What a remote peer may answer to the offers of this session.
ReceiverControls == { "file_accept", "file_reject", "file_cancel" }
RemoteReplies == { Ctl(type, tid) : type \in ReceiverControls, tid \in SendIds }

\* the bounds on what a step may create
Within(s) == Len(s.send_tasks) <= MaxSendTasks /\ s.leaked_handles <= MaxLeaked

\* A message of the remote peer arrives on the open channel.
Receive(p) ==
    \E m \in RemoteMessages :
        /\ peer[p].channel = "open"
        /\ Update(p, on_message(Begin(peer[p]), m))
        /\ Within(peer'[p])
        /\ UNCHANGED hist

\* An answer of the remote peer arrives on the open channel.
ReceiveReply(p) ==
    \E m \in RemoteReplies :
        /\ peer[p].channel = "open"
        /\ Update(p, on_message(Begin(peer[p]), m))
        /\ Within(peer'[p])
        /\ UNCHANGED hist

\* The application sends a file.
SendFile(p) ==
    \E c \in SendFiles :
        /\ peer[p].sends < MaxSends
        /\ Update(p, send_file(call(Begin(peer[p]), "send_file", TransferIdOf(c)), c))
        /\ UNCHANGED hist

\* The application accepts an offer it was shown.
AcceptFile(p) ==
    \E tid \in TransferIds :
        /\ InTable(peer[p], tid)
        /\ ~Get(peer[p], tid).is_complete /\ Get(peer[p], tid).file_handle = None
        /\ Update(p, accept_file(call(Begin(peer[p]), "accept_file", tid), tid))
        /\ UNCHANGED hist

\* The application rejects a transfer of its table.
RejectFile(p) ==
    \E tid \in TransferIds :
        /\ InTable(peer[p], tid)
        /\ Update(p, reject_file(call(Begin(peer[p]), "reject_file", tid), tid))
        /\ UNCHANGED hist

\* The application cancels a transfer of its table, or the one it sends.
CancelFileTransfer(p) ==
    \E tid \in TransferIds :
        /\ InTable(peer[p], tid) \/ peer[p].outgoing_file_transfer.transfer_id = tid
        /\ Update(p, cancel_file_transfer(
                         call(Begin(peer[p]), "cancel_file_transfer", tid), tid))
        /\ UNCHANGED hist

\* The sleep of the offer timer ends.
FileOfferTimeout(p) ==
    /\ peer[p].file_offer_timer # NoTimer /\ ~peer[p].file_offer_timer.fired
    /\ Update(p, _file_offer_timeout_handler(Begin(peer[p])))
    /\ hist' = IF Emitted(peer'[p], "file_timeout")
               THEN [hist EXCEPT !.of[p].timed_out = TRUE] ELSE hist

\* A chunk-send task runs: created, or at the end of its sleep after a chunk.
SendFileChunks(p) ==
    \E i \in DOMAIN peer[p].send_tasks :
        /\ Update(p, _send_file_chunks(Begin(peer[p]), i))
        /\ UNCHANGED hist

\* An initiator whose transport has connected and whose channel has opened.
Established(s) ==
    Begin(on_open([_on_connection_state_change(
                       [create_initiator(s) EXCEPT !.pc = "connected"])
                     EXCEPT !.channel = "open"]))

\* The offers of a remote peer, well formed or not: under a name or none,
\* with a size or none, with or without checksum and transfer id.
Offer(filename, size, checksum, tid) ==
    [Msg("file_offer", tid, size, checksum, <<>>) EXCEPT !.filename = filename]
OfferNames == { NoId, <<"s">>, <<"/", "s">>, <<".">>, <<"s", ".", "j", "s">> }
OfferSizes == { -1, 0, MAX_FILE_SIZE, MAX_FILE_SIZE + 1 }
OfferMessages ==
    { Offer(filename, size, checksum, tid) :
          filename \in OfferNames, size \in OfferSizes,
          checksum \in { NoId, calculate_file_checksum(<<0>>) },
          tid \in { NoId } \cup InboundIds }

\* An offer arrives on the open channel.
ReceiveFileOffer(p) ==
    \E m \in OfferMessages :
        /\ peer[p].channel = "open"
        /\ Update(p, on_message([Begin(peer[p]) EXCEPT !.out =
                         <<Item("call", "on_message", m.transfer_id, m)>>], m))
        /\ Within(peer'[p])
        /\ UNCHANGED hist

InitXfer ==
    /\ val = NoValue
    /\ peer = [p \in Peers |-> Established(Configured(<<3, Sec(2), Sec(4)>>))]
    /\ net = [p \in Peers |-> <<>>]
    /\ hist = [linked |-> FALSE, of |-> [p \in Peers |-> NoHistory]]

\* The transfers a session receives.
NextIncoming ==
    \E p \in Solo :
        \/ Receive(p)
        \/ AcceptFile(p)
        \/ RejectFile(p)
        \/ CancelFileTransfer(p)

SpecIncoming == InitXfer /\ [][NextIncoming]_vars

\* The same arrival, noted in what the step did.
ReceiveMessage(p) ==
    \E m \in RemoteMessages :
        /\ peer[p].channel = "open"
        /\ Update(p, on_message([Begin(peer[p]) EXCEPT !.out =
                         <<Item("call", "on_message", m.transfer_id, m)>>], m))
        /\ Within(peer'[p])
        /\ UNCHANGED hist

\* The transfers a session receives and accepts.
NextReceipt ==
    \E p \in Solo :
        \/ ReceiveMessage(p)
        \/ AcceptFile(p)

SpecReceipt == InitXfer /\ [][NextReceipt]_vars

\* The offers a session receives, and what the application answers.
NextInbound ==
    \E p \in Solo :
        \/ ReceiveFileOffer(p)
        \/ AcceptFile(p)
        \/ RejectFile(p)

SpecInbound == InitXfer /\ [][NextInbound]_vars

\* The transfers a session sends.
NextOutgoing ==
    \E p \in Solo :
        \/ SendFile(p)
        \/ ReceiveReply(p)
        \/ CancelFileTransfer(p)
        \/ FileOfferTimeout(p)
        \/ SendFileChunks(p)

SpecOutgoing == InitXfer /\ [][NextOutgoing]_vars

\* The same, with the sleep of the offer timer coming to its end: a timer
\* task that is not cancelled runs when asyncio.sleep returns.
SpecOffer ==
    /\ InitXfer
    /\ [][NextOutgoing]_vars
    /\ WF_vars(\E p \in Solo : FileOfferTimeout(p))

\* Transfers in both directions on a channel that may close under them.
\* The remote peer offers its one-byte file, once without a size, streams
\* chunks that match it or not, and reports errors, cancels and timeouts.
IncidentMessages ==
    { Msg("file_offer", TransferIdOf(<<0>>), 1, calculate_file_checksum(<<0>>), <<>>),
      Ctl("file_offer", TransferIdOf(<<0>>)) }
    \cup { Msg("chunk", NoId, 0, NoId, d) : d \in RemoteChunks }
    \cup { Ctl(type, TransferIdOf(<<0>>)) :
               type \in {"file_error", "file_cancel", "file_timeout"} }

ReceiveIncident(p) ==
    \E m \in IncidentMessages :
        /\ peer[p].channel = "open"
        /\ Update(p, on_message(Begin(peer[p]), m))
        /\ Within(peer'[p])
        /\ UNCHANGED hist

\* The application sends one file.
SendOneFile(p) == peer[p].sends = 0 /\ SendFile(p)

\* One file is sent, and the event loop runs the tasks that send it: a task
\* that was created runs, and its sleep after a chunk ends.
NextAccept ==
    \E p \in Solo :
        \/ SendOneFile(p)
        \/ ReceiveReply(p)
        \/ CancelFileTransfer(p)
        \/ FileOfferTimeout(p)
        \/ SendFileChunks(p)
        \/ ChannelClosed(p)

SpecAccept ==
    /\ InitXfer
    /\ [][NextAccept]_vars
    /\ WF_vars(\E p \in Solo : SendFileChunks(p))


NextTransfers ==
    \E p \in Solo :
        \/ ReceiveIncident(p)
        \/ AcceptFile(p)
        \/ SendOneFile(p)
        \/ ReceiveReply(p)
        \/ FileOfferTimeout(p)
        \/ SendFileChunks(p)
        \/ ChannelClosed(p)

SpecTransfers == InitXfer /\ [][NextTransfers]_vars

----------------------------------------------------------------------------
(* Chat messages of one session. *)

\* the characters of the messages: a letter, whitespace, a control character,
\* a character no username may hold, and the separator of username|content
MessageChars == {"a", " ", "LF", "SOH", "!", "|"}
Strings(n) == UNION { [1..k -> MessageChars] : k \in 0..n }

\* the application calls send(message)
call_send(s, message) ==
    [s EXCEPT !.out = Append(@, Item("call", "send", NoId,
                                    Msg("chat", NoId, 0, NoId, message)))]

Send(p) ==
    \E message \in Strings(MaxChatLen) :
        /\ Update(p, send(call_send(Begin(peer[p]), message), message))
        /\ UNCHANGED hist

\* The texts a user may type: a word, a brace, and JSON objects, with a
\* 'type' or without, bare and under a username.
ChatTexts ==
    { <<"a">>, <<"{">>, <<"{", "text", ":", "type", "}">>, <<"a", "|", "{", "type", ":", "heartbeat", "}">> }
    \cup { <<"{", "type", ":", v, "}">> : v \in {"heartbeat", "file_reject", "text"} }

SendText(p) ==
    \E message \in ChatTexts :
        /\ Update(p, send(call_send(Begin(peer[p]), message), message))
        /\ UNCHANGED hist

NextChat ==
    \E p \in Solo :
        \/ Send(p)
        \/ ChannelClosed(p)
        \/ Close(p)

SpecChat == InitXfer /\ [][NextChat]_vars

----------------------------------------------------------------------------
(* The functions of security and signaling, applied to the inputs of a
   bounded set.  val holds the function under study, its input and what it
   returned; the sessions take no part. *)

Idle ==
    /\ peer = [p \in Peers |-> NewSession]
    /\ net = [p \in Peers |-> <<>>]
    /\ hist = [linked |-> FALSE, of |-> [p \in Peers |-> NoHistory]]

\* sanitize_message is given a message, and then its own result.
InitSanitize ==
    /\ Idle
    /\ \E x \in Strings(MaxMsgLen) : val = [op |-> "sanitize_message", x |-> x, calls |-> 0]

SanitizeMessage ==
    /\ val.op = "sanitize_message" /\ val.calls = 0
    /\ val' = [op |-> val.op, x |-> val.x, calls |-> 1, first |-> sanitize_message(val.x)]
    /\ UNCHANGED <<peer, net, hist>>

SanitizeMessageAgain ==
    /\ val.op = "sanitize_message" /\ val.calls = 1 /\ val.first.ok
    /\ val' = [op |-> val.op, x |-> val.x, calls |-> 2, first |-> val.first,
               second |-> sanitize_message(val.first.value)]
    /\ UNCHANGED <<peer, net, hist>>

\* encode is given a session description, and decode the key it returned.
InitSignaling ==
    /\ Idle
    /\ \E type \in DescriptionTypes, sdp \in Texts(MaxSdpLen) :
          val = [op |-> "encode", x |-> [type |-> type, sdp |-> sdp], calls |-> 0]

Encode ==
    /\ val.op = "encode" /\ val.calls = 0
    /\ val' = [op |-> val.op, x |-> val.x, calls |-> 1, key |-> encode(val.x)]
    /\ UNCHANGED <<peer, net, hist>>

Decode ==
    /\ val.op = "encode" /\ val.calls = 1
    /\ val' = [op |-> val.op, x |-> val.x, calls |-> 2, key |-> val.key,
               decoded |-> decode(val.key)]
    /\ UNCHANGED <<peer, net, hist>>

NextSignaling == Encode \/ Decode

SpecSignaling == InitSignaling /\ [][NextSignaling]_vars

\* The file names: letters, dots, the separators, whitespace and a control
\* character.  The sizes: none, one byte, and one byte too many.
FilenameChars == {"j", "s", ".", "/", "\\", " ", "SOH"}
Filenames(n) == UNION { [1..k -> FilenameChars] : k \in 0..n }
FileSizes == {0, 1, MAX_FILE_SIZE + 1}

\* sanitize_filename is given a file name, or validate_file_transfer a file
\* name, a size and the flag of the extensions.
InitFilename ==
    /\ Idle
    /\ \E filename \in Filenames(MaxNameLen) :
          val = [op |-> "filename", x |-> filename, calls |-> 0]

SanitizeFilename ==
    /\ val.op = "filename" /\ val.calls = 0
    /\ val' = [op |-> val.op, x |-> val.x, calls |-> 1, fn |-> "sanitize_filename",
               result |-> sanitize_filename(val.x)]
    /\ UNCHANGED <<peer, net, hist>>

ValidateFileTransfer ==
    \E file_size \in FileSizes, allow_any_extension \in BOOLEAN :
        /\ val.op = "filename" /\ val.calls = 0
        /\ val' = [op |-> val.op, x |-> val.x, calls |-> 1,
                   fn |-> "validate_file_transfer",
                   file_size |-> file_size, allow_any_extension |-> allow_any_extension,
                   result |-> validate_file_transfer(val.x, file_size,
                                                     allow_any_extension)]
        /\ UNCHANGED <<peer, net, hist>>

NextFilename == SanitizeFilename \/ ValidateFileTransfer

SpecFilename == InitFilename /\ [][NextFilename]_vars

NextSanitize == SanitizeMessage \/ SanitizeMessageAgain

SpecSanitize == InitSanitize /\ [][NextSanitize]_vars

----------------------------------------------------------------------------
(* A send/receive cycle between two sessions over their data channel. *)

\* A joiner whose transport has connected and that was handed the channel.
EstablishedJoiner(s) ==
    Begin(_on_datachannel(_on_connection_state_change(
              [accept_invite(s, TRUE) EXCEPT !.pc = "connected"])))

Sender == "A"
Receiver == "B"

InitCycle ==
    /\ val = NoValue
    /\ peer = [p \in Peers |->
                  IF p = Sender
                  THEN Established(Configured(<<3, Sec(2), Sec(4)>>))
                  ELSE EstablishedJoiner(Configured(<<3, Sec(2), Sec(4)>>))]
    /\ net = [p \in Peers |-> <<>>]
    /\ hist = [linked |-> TRUE, of |-> [p \in Peers |-> NoHistory]]

\* The channel delivers to p the oldest message in flight to it.
Deliver(p) ==
    /\ net[p] # <<>>
    /\ peer[p].channel = "open"
    /\ \E s2 \in {on_message(Begin(peer[p]), Head(net[p]))} :
       /\ Within(s2)
       /\ Len(net[Other(p)]) + Len(Outbox(s2)) <= MaxInFlight
       /\ peer' = [peer EXCEPT ![p] = s2]
       /\ net' = [net EXCEPT ![p] = Tail(@), ![Other(p)] = @ \o Outbox(s2)]
    /\ UNCHANGED <<hist, val>>

NextCycle ==
    \/ SendFile(Sender)
    \/ AcceptFile(Receiver)
    \/ FileOfferTimeout(Sender)
    \/ SendFileChunks(Sender)
    \/ Deliver(Sender)
    \/ Deliver(Receiver)

\* Two users talk.
NextTalk ==
    \/ SendText(Sender)
    \/ Deliver(Sender)
    \/ Deliver(Receiver)

\* The event loop runs a task whose sleep has ended, and the channel delivers
\* what is in flight.  When the receiver answers and when the offer timer
\* fires is up to the user and the clock.
SpecCycle ==
    /\ InitCycle /\ [][NextCycle]_vars
    /\ WF_vars(SendFileChunks(Sender))
    /\ WF_vars(Deliver(Sender))
    /\ WF_vars(Deliver(Receiver))

SpecTalk == InitCycle /\ [][NextTalk]_vars

----------------------------------------------------------------------------
(* The transfers of a session whose connection comes and goes.  The steps of
   a reconnection attempt are left out: an attempt that is scheduled here
   does not get to run. *)

\* The remote peer offers its two-byte file and streams chunks.
SweepMessages ==
    { Msg("file_offer", TransferIdOf(<<0, 1>>), 2, calculate_file_checksum(<<0, 1>>), <<>>) }
    \cup { Msg("chunk", NoId, 0, NoId, d) : d \in RemoteChunks }

ReceiveTransfer(p) ==
    \E m \in SweepMessages :
        /\ peer[p].channel = "open"
        /\ Update(p, on_message(Begin(peer[p]), m))
        /\ Within(peer'[p])
        /\ UNCHANGED hist

InitSweep ==
    /\ Init
    /\ \A p \in Peers : peer[p].max_reconnection_attempts = 1

NextSweep ==
    \E p \in Solo :
        \/ CreateInitiator(p)
        \/ TransportEvent(p)
        \/ TransportClosed(p)
        \/ ConnectionStateChange(p)
        \/ ChannelOpen(p)
        \/ ChannelClosed(p)
        \/ OrphanChannelClosed(p)
        \/ Close(p)
        \/ CloseReturn(p)
        \/ ReceiveTransfer(p)
        \/ AcceptFile(p)
        \/ SendFile(p)

SpecSweep == InitSweep /\ [][NextSweep]_vars

\* Transfers and reconnection attempts together: the transport is closed by
\* close() and by the attempts that replace it, while one offer of the remote
\* peer and one file of the session's own are under way.  An attempt is
\* followed up to the replay of the descriptions on its new transport.
ReceiveOffer(p) ==
    \E m \in { m \in SweepMessages : m.type = "file_offer" } :
        /\ peer[p].channel = "open"
        /\ Update(p, on_message(Begin(peer[p]), m))
        /\ Within(peer'[p])
        /\ UNCHANGED hist

NextTeardown ==
    \E p \in Solo :
        \/ CreateInitiator(p)
        \/ TransportEvent(p)
        \/ TransportClosed(p)
        \/ ConnectionStateChange(p)
        \/ ChannelOpen(p)
        \/ PerformReconnectionStart(p)
        \/ PerformReconnectionWake(p)
        \/ PerformReconnectionSetup(p)
        \/ Close(p)
        \/ CloseReturn(p)
        \/ ReceiveOffer(p)
        \/ AcceptFile(p)
        \/ SendOneFile(p)

SpecTeardown == InitSweep /\ [][NextTeardown]_vars

\* The control messages no well-behaved peer sends: of a type the dispatch
\* does not know, or of a known type without its transfer id (and, for an
\* offer, without size and checksum).
ControlTypes ==
    { "file_offer", "file_accept", "file_reject", "file_timeout", "file_start",
      "file_end", "file_error", "file_cancel" }
UnknownTypes == { "file_keepalive", "file_resume" }
ViolationMessages == { Ctl(type, NoId) : type \in ControlTypes \cup UnknownTypes }

\* A message that violates the protocol arrives on the open channel.
ReceiveViolation(p) ==
    \E m \in ViolationMessages :
        /\ peer[p].channel = "open"
        /\ Update(p, on_message([Begin(peer[p]) EXCEPT !.out =
                         <<Item("call", "on_message", NoId, m)>>], m))
        /\ Within(peer'[p])
        /\ UNCHANGED hist

\* A session that sends one file and is offered one, under the heartbeat,
\* and the violations of the protocol that reach it.
NextViolation ==
    \E p \in Solo :
        \/ SendOneFile(p)
        \/ FileOfferTimeout(p)
        \/ ReceiveOffer(p)
        \/ AcceptFile(p)
        \/ HeartbeatLoopStart(p)
        \/ HeartbeatLoopWake(p)
        \/ ReceiveViolation(p)

SpecViolation == InitXfer /\ [][NextViolation]_vars

----------------------------------------------------------------------------
(* The claims about the connection life cycle. *)

\* C1: in every reachable state of a session the reconnection attempt counter
\* is at most max_reconnection_attempts, whatever Failed, Disconnected and
\* Connected events and failed attempts came before.
C1_AttemptsBounded ==
    \A p \in Peers :
        peer[p].reconnection_attempts <= peer[p].max_reconnection_attempts

\* C1, its case: the counter has reached a bound of three attempts, and the
\* handler of one more Failed or Disconnected event reported
\* reconnection_failed instead of starting a fourth attempt.
C1_Witness ==
    /\ peer["A"].max_reconnection_attempts = 3
    /\ peer["A"].reconnection_attempts = 3
    /\ peer["A"].pc \in {"failed", "disconnected"}
    /\ Emitted(peer["A"], "reconnection_failed")

C3_HeartbeatTimeoutIsInert ==
    [][\A p \in Peers :
          /\ (Warned(peer'[p], "heartbeat_timeout") /\ peer'[p] # peer[p]) =>
                /\ connection_state(peer'[p]) = connection_state(peer[p])
                /\ peer'[p].pc = peer[p].pc
                /\ peer'[p].channel = peer[p].channel
                /\ peer'[p].reconnection_task = peer[p].reconnection_task
                /\ peer'[p].reconnection_attempts = peer[p].reconnection_attempts
                /\ ~Emitted(peer'[p], "reconnection_attempt")
                /\ ~Emitted(peer'[p], "reconnection_failed")
          /\ (peer'[p].reconnection_task = "start" /\ peer[p].reconnection_task # "start") =>
                /\ peer[p].pc \in {"failed", "disconnected"}
                /\ peer'[p].pending = peer[p].pending - 1
      ]_vars

\* C3, its case: the loop has just logged the timeout, on a session that is
\* connected and whose attempt counter is below its bound.
C3_Witness ==
    /\ Warned(peer["A"], "heartbeat_timeout")
    /\ is_connected(peer["A"])
    /\ peer["A"].since_heartbeat_response > 10 * peer["A"].heartbeat_interval
    /\ peer["A"].reconnection_attempts < peer["A"].max_reconnection_attempts

\* C4: a session whose connection state is "closed" stays closed, and the
\* state becomes "closed" only once close() has been called.
C4_ClosedIsTerminal ==
    [][\A p \in Peers :
          /\ connection_state(peer[p]) = "closed" => connection_state(peer'[p]) = "closed"
          /\ (connection_state(peer[p]) # "closed" /\ connection_state(peer'[p]) = "closed")
                => hist'.of[p].close_called
      ]_vars

\* C5: once close() has been called, no reconnection task and no heartbeat
\* task is alive.
C5_NoTaskAfterClose ==
    \A p \in Peers :
        hist.of[p].close_called =>
            /\ peer[p].reconnection_task \in {None, "done"}
            /\ peer[p].heartbeat_task \in {None, "done"}

----------------------------------------------------------------------------
(* The claims about file transfers. *)

\* the FileTransfer objects a session is sending: the one in the outgoing
\* slot, and those a chunk-send task streams
InFlight(s) ==
    (IF s.outgoing_file_transfer # NoTransfer
     THEN {s.outgoing_file_transfer.obj} ELSE {})
    \cup { s.send_tasks[i].transfer.obj :
               i \in { j \in DOMAIN s.send_tasks : s.send_tasks[j].pos = "stream" } }

\* C6: at any time at most one outgoing transfer of a session is in flight,
\* offered and awaiting a decision or being streamed by a chunk-send task.
C6_OneOutgoingInFlight ==
    \A p \in Peers : Cardinality(InFlight(peer[p])) <= 1

\* the staging file of a transfer holds what the offer's checksum declares
Verified(s, tid) ==
    /\ s.disk[StagingPath(tid)].exists
    /\ verify_file_integrity(s.disk[StagingPath(tid)].data, Get(s, tid).checksum)

Completed(s, tid) == InTable(s, tid) /\ Get(s, tid).is_complete

C9_RejectedOrCancelledLeavesNothing ==
    [][\A p \in Peers : \A tid \in InboundIds :
          (/\ peer'[p] # peer[p]
           /\ InTable(peer[p], tid)
           /\ \/ Called(peer'[p], "reject_file", tid)
              \/ Called(peer'[p], "cancel_file_transfer", tid)
              \/ EmittedFor(peer'[p], "file_cancelled", tid))
          => /\ ~InTable(peer'[p], tid)
             /\ ~peer'[p].disk[StagingPath(tid)].exists
      ]_vars

\* the receiver holds the file of content c staged, complete and verified
Staged(c) ==
    /\ Completed(peer[Receiver], TransferIdOf(c))
    /\ peer[Receiver].disk[StagingPath(TransferIdOf(c))] = File(c)

\* the receiver has accepted the offer of the file of content c
Accepted(c) ==
    /\ InTable(peer[Receiver], TransferIdOf(c))
    /\ Get(peer[Receiver], TransferIdOf(c)).file_handle # None

\* the sender streams the file of content c, or is about to
Streaming(c) ==
    /\ peer[Sender].outgoing_file_transfer.transfer_id = TransferIdOf(c)
    /\ peer[Sender].send_tasks # <<>>

\* C7 as stated: once the receiver has accepted the offer of a file, it
\* eventually holds the file staged, complete, with the content of the source.
C7_AcceptedIsEventuallyStaged ==
    \A c \in SendFiles : Accepted(c) ~> Staged(c)

\* C7 as amended: when the accept has reached the sender and no offer of the
\* sender had timed out before, the receiver eventually holds the file staged,
\* complete, with the content of the source.
C7_StreamedIsEventuallyStaged ==
    \A c \in SendFiles :
        (Accepted(c) /\ Streaming(c) /\ ~hist.of[Sender].timed_out) ~> Staged(c)

\* C7, its case: the three-byte file, sent in two chunks, is staged at the
\* receiver, which has just emitted file_completed for it.
C7_Witness ==
    /\ Staged([i \in 1..MaxFileLen |-> 0])
    /\ EmittedFor(peer[Receiver], "file_completed", TransferIdOf([i \in 1..MaxFileLen |-> 0]))
    /\ ~hist.of[Sender].timed_out

\* a staging file that does not hold the whole content of its transfer
Partial(s, tid) == s.disk[StagingPath(tid)].exists /\ s.disk[StagingPath(tid)].data # tid[2]

\* nothing of any transfer is left
Swept(s) ==
    /\ s.active_file_transfers = <<>>
    /\ OpenHandles(s) = 0
    /\ s.outgoing_file_transfer = NoTransfer
    /\ \A tid \in TransferIds : ~Partial(s, tid)

\* close() has returned, and the handlers of the events the closed transport
\* and channel owed have run
ClosedDown(p) ==
    /\ hist.of[p].close_called
    /\ peer[p].close_pos = "idle" /\ peer[p].pc = None
    /\ peer[p].pending = 0 /\ ~peer[p].orphan_close_pending

\* C10: once a session has closed, its transfers are swept: the table is
\* empty, no staging file handle is open, no partial staging file remains and
\* the outgoing slot is empty.
C10_SweptWhenClosed ==
    \A p \in Peers : ClosedDown(p) => Swept(peer[p])

----------------------------------------------------------------------------
(* The claims about messages and keys. *)

\* what the last step handed to the data channel
Handed(s) == SelectSeq(s.out, LAMBDA o : o.kind = "send")

\* C11: a call of send(message) hands to the data channel exactly the
\* sanitized message, and only with the channel open and the message passing
\* sanitize_message; otherwise it hands over nothing and emits an error.
C11_SendsOnlySanitized ==
    \A p \in Peers : \A i \in DOMAIN peer[p].out :
        (peer[p].out[i].kind = "call" /\ peer[p].out[i].name = "send") =>
            LET message == peer[p].out[i].arg.data
                clean   == sanitize_message(message)
            IN  IF peer[p].channel = "open" /\ clean.ok
                THEN /\ Len(Handed(peer[p])) = 1
                     /\ Handed(peer[p])[1].arg.data = clean.value
                ELSE /\ Handed(peer[p]) = <<>>
                     /\ Emitted(peer[p], "error")

\* C11, its case: send(" a") on an open channel handed over "a".
C11_Witness ==
    /\ peer["A"].channel = "open"
    /\ \E i \in DOMAIN peer["A"].out :
          /\ peer["A"].out[i].kind = "call" /\ peer["A"].out[i].name = "send"
          /\ peer["A"].out[i].arg.data = <<" ", "a">>
    /\ Len(Handed(peer["A"])) = 1
    /\ Handed(peer["A"])[1].arg.data = <<"a">>

\* the descriptions a session stores, and those its transport holds
Descriptions(s) ==
    [original_offer |-> s.original_offer, original_answer |-> s.original_answer,
     original_remote_offer |-> s.original_remote_offer,
     original_remote_answer |-> s.original_remote_answer,
     local_description |-> s.local_description,
     remote_description |-> s.remote_description]

\* the descriptions the last step applied to the transport, in order
Applied(s) == SelectSeq(s.out, LAMBDA o : o.kind = "pc")

\* C12: receive_return_key called on a session that is not the initiator (a
\* joiner, or a session without a role) emits an error, applies no description
\* to the transport and changes no stored description.
C12_ReturnKeyOnlyForInitiator ==
    [][\A p \in Peers :
          (Called(peer'[p], "receive_return_key", NoId) /\ ~peer[p].is_initiator) =>
              /\ Emitted(peer'[p], "error")
              /\ Applied(peer'[p]) = <<>>
              /\ Descriptions(peer'[p]) = Descriptions(peer[p])]_vars

\* C12, its case: a joiner that holds its answer was given a return key.
C12_Witness ==
    /\ Called(peer["A"], "receive_return_key", NoId)
    /\ ~peer["A"].is_initiator
    /\ peer["A"].original_answer # None
    /\ peer["A"].pc \notin {None, "closed"}
    /\ Emitted(peer["A"], "error")

\* what a session holds of its connection: the transport, the channel, the
\* heartbeat and the reconnection
Connection(s) ==
    [pc |-> s.pc, pc_closing |-> s.pc_closing, pending |-> s.pending,
     channel |-> s.channel, orphan_close_pending |-> s.orphan_close_pending,
     heartbeat_task |-> s.heartbeat_task,
     reconnection_task |-> s.reconnection_task,
     reconnection_attempts |-> s.reconnection_attempts,
     reconnection_enabled |-> s.reconnection_enabled,
     close_pos |-> s.close_pos]

\* the last step met an error of a file transfer: it rejected an offer,
\* reported a file_error (a checksum mismatch, a failed send, the remote
\* peer's file_error), or handled a file_cancel or a file_timeout
FileTransferError(s) ==
    \/ Sent(s, "file_reject")
    \/ Emitted(s, "file_error")
    \/ Emitted(s, "file_cancelled")
    \/ Emitted(s, "file_timeout")

\* C13: a step that meets an error of a file transfer leaves the connection
\* as it was: the connection state, the data channel, the transport, the
\* heartbeat task and the reconnection task.
C13_FileErrorsKeepConnection ==
    [][\A p \in Peers :
          FileTransferError(peer'[p]) => Connection(peer'[p]) = Connection(peer[p])]_vars

\* C13, its case: the checksum of a received file did not match, on a
\* connected session whose heartbeat is scheduled.
C13_Witness ==
    /\ \E tid \in InboundIds :
          EmittedFileError(peer["A"], tid, "File integrity check failed")
    /\ is_connected(peer["A"])
    /\ peer["A"].heartbeat_task # None

\* C14: sanitize_message is idempotent: applied to a result of its own, it
\* succeeds and returns that result.
C14_SanitizeMessageIdempotent ==
    (val.op = "sanitize_message" /\ val.calls = 2) =>
        val.second.ok /\ val.second.value = val.first.value

\* C15: decode(encode(d)) succeeds and returns the type and the sdp of d,
\* for every session description d.
C15_DecodeInvertsEncode ==
    (val.op = "encode" /\ val.calls = 2) =>
        /\ val.decoded.ok
        /\ val.decoded.value.type = val.x.type
        /\ val.decoded.value.sdp = val.x.sdp

\* C15, its case: a description whose sdp holds a quote, a backslash and a
\* line feed went through encode and decode.
C15_Witness ==
    /\ val.op = "encode" /\ val.calls = 2
    /\ val.x.sdp = <<"\"", "\\", "LF">>
    /\ val.decoded.ok /\ val.decoded.value.sdp = val.x.sdp

\* x occurs in y as a substring
Occurs(x, y) == \E i \in 1..(Len(y) - Len(x) + 1) : SubSeq(y, i, i + Len(x) - 1) = x

\* C16: a file name that sanitize_filename or validate_file_transfer returns
\* holds no slash, no backslash and no "..", and does not begin with a dot.
C16_ReturnedFilenameIsPlain ==
    (val.op = "filename" /\ val.calls = 1 /\ val.result.ok) =>
        LET name == val.result.value IN
        /\ \A i \in DOMAIN name : name[i] \notin {"/", "\\"}
        /\ ~Occurs(<<".", ".">>, name)
        /\ name # <<>> /\ name[1] # "."

----------------------------------------------------------------------------
(* The claims about offers and reconnection attempts. *)

\* send_file has offered transfer tid and its timer sleeps
OfferPending(tid) ==
    /\ peer["A"].outgoing_file_transfer.transfer_id = tid
    /\ peer["A"].file_offer_timer = [transfer_id |-> tid, fired |-> FALSE]

\* the last step timed the offer out: file_timeout sent, the outgoing slot
\* cleared, the event emitted
OfferTimedOut(tid) ==
    /\ \E i \in DOMAIN peer["A"].out :
          /\ peer["A"].out[i].kind = "send" /\ peer["A"].out[i].name = "file_timeout"
          /\ peer["A"].out[i].tid = tid
    /\ EmittedFor(peer["A"], "file_timeout", tid)
    /\ peer["A"].outgoing_file_transfer = NoTransfer

\* the last step handled an accept or a reject for transfer tid
OfferAnswered(tid) ==
    \/ EmittedFor(peer["A"], "file_accepted", tid)
    \/ EmittedFor(peer["A"], "file_rejected", tid)

\* the last step cancelled transfer tid, here or at the remote peer
OfferWithdrawn(tid) ==
    \/ Called(peer["A"], "cancel_file_transfer", tid)
    \/ EmittedFor(peer["A"], "file_cancelled", tid)

\* C17: an offer that is pending is timed out (file_timeout sent, the
\* outgoing transfer cleared, the timeout event emitted), unless an accept
\* or a reject for that transfer arrives or the transfer is cancelled.
C17_UnansweredOfferTimesOut ==
    \A tid \in SendIds :
        OfferPending(tid) ~> (OfferTimedOut(tid) \/ OfferAnswered(tid) \/ OfferWithdrawn(tid))

\* a reconnection task is in flight: created and not finished or cancelled
Reconnecting(s) == s.reconnection_task \notin {None, "done"}

\* the last step handled a Failed or a Disconnected event
Dropped(s) == Emitted(s, "failed") \/ Emitted(s, "disconnected")

\* C18: a Failed or Disconnected event handled while a reconnection task is
\* in flight starts no task and leaves the task and the attempt counter as
\* they were.
C18_OneReconnectionInFlight ==
    [][\A p \in Peers :
          (Dropped(peer'[p]) /\ Reconnecting(peer[p])) =>
              /\ peer'[p].reconnection_task = peer[p].reconnection_task
              /\ peer'[p].reconnection_attempts = peer[p].reconnection_attempts
              /\ ~Emitted(peer'[p], "reconnection_attempt")]_vars

\* C18, its case: the new transport of an attempt failed while the task of
\* that attempt was still at its replay.
C18_Witness ==
    /\ Emitted(peer["A"], "failed")
    /\ peer["A"].reconnection_task = "replay"
    /\ peer["A"].reconnection_attempts < peer["A"].max_reconnection_attempts

\* the last attempt failed with attempts left: its task sleeps before it
\* calls _attempt_reconnection
RetryPending(s) ==
    /\ s.reconnection_task = "retry_sleep"
    /\ s.reconnection_attempts < s.max_reconnection_attempts

\* the last step settled the reconnection: the next attempt was started, the
\* session connected, reconnection_failed was reported, or the session was
\* closed by the application or by its transport
Settled(p) ==
    \/ Emitted(peer[p], "reconnection_attempt")
    \/ Emitted(peer[p], "connected")
    \/ Emitted(peer[p], "reconnection_failed")
    \/ Emitted(peer[p], "closed")
    \/ hist.of[p].close_called

\* C19: an attempt that ends in a timeout or a transport error with attempts
\* left is followed by the next attempt, unless the session connects, gives
\* up with reconnection_failed or is closed first.
C19_FailedAttemptIsRetried ==
    \A p \in Solo : RetryPending(peer[p]) ~> Settled(p)

\* the names of the descriptions a step applied to the transport, in order
AppliedNames(s) ==
    [i \in DOMAIN Applied(s) |-> <<Applied(s)[i].name, Applied(s)[i].arg.type>>]

\* C20: an attempt closes the old transport before it creates the new one
\* and the new data channel of the initiator; its replay applies the
\* initiator's original offer, or the joiner's stored remote offer and then
\* its original answer; and after a replay that succeeds the new transport
\* holds a local and a remote description.
C20_ReplayRestoresDescriptions ==
    [][\A p \in Peers :
          /\ (peer[p].reconnection_task \in {"sleep", "closing"}
                 /\ peer'[p].reconnection_task = "replay") =>
                /\ peer[p].pc \in {None, "closed"} \/ peer[p].pc_closing
                /\ peer'[p].pc = "new"
                /\ peer'[p].is_initiator => peer'[p].channel = "connecting"
          /\ (peer[p].reconnection_task = "replay"
                 /\ peer'[p].reconnection_task = "done"
                 /\ ~Emitted(peer'[p], "reconnection_failed")) =>
                /\ AppliedNames(peer'[p]) =
                       IF peer[p].is_initiator
                       THEN << <<"setLocalDescription", "offer">> >>
                       ELSE << <<"setRemoteDescription", "offer">>,
                               <<"setLocalDescription", "answer">> >>
                /\ peer'[p].local_description # None
                /\ peer'[p].remote_description # None]_vars

----------------------------------------------------------------------------
(* Claims about the transport's events. *)

\* the heartbeat task exists and has not ended
HeartbeatAlive(s) == s.heartbeat_task \in {"start", "sleep"}

\* C21: whenever the session is connected with an open data channel, a
\* heartbeat task is alive (and so sends a heartbeat every interval), in
\* whatever order the transport's Connected event and the channel's open
\* event arrived: a session that is connected comes to have a live heartbeat
\* task, unless it stops being connected first.
C21_ConnectedHasHeartbeat ==
    \A p \in Solo :
        is_connected(peer[p]) ~> (HeartbeatAlive(peer[p]) \/ ~is_connected(peer[p]))

\* C22: the handler of a Connected event leaves the attempt counter at 0 and
\* the reconnection delay at the initial delay the session was configured
\* with.
C22_ConnectedResetsBackoff ==
    \A p \in Solo :
        Emitted(peer[p], "connected") =>
            /\ peer[p].reconnection_attempts = 0
            /\ peer[p].reconnection_delay = hist.initial_delay

FailureHandled(p) ==
    /\ peer[p].pending > 0 /\ peer[p].pc \in {"failed", "disconnected"}
    /\ Emitted(peer'[p], "failed") \/ Emitted(peer'[p], "disconnected")

\* the last step scheduled a reconnection attempt: it created the task
Scheduled(s) == s.reconnection_task = "start" /\ Emitted(s, "reconnection_attempt")

\* a description of the handshake is stored
Stored(s) == s.original_offer # None \/ s.original_answer # None

\* before any handshake has stored a description, no attempt was scheduled
NoAttemptBeforeHandshake ==
    \A p \in Solo :
        ~Stored(peer[p]) =>
            /\ peer[p].reconnection_task = None
            /\ peer[p].reconnection_attempts = 0

\* C24 as stated: the handler of a Failed or Disconnected event stops the
\* heartbeat, and schedules a reconnection attempt if and only if
\* reconnection is enabled and a description is stored; with no description
\* stored no attempt is ever scheduled.
C24_FailureSchedulesReconnection ==
    /\ [][\A p \in Solo :
             FailureHandled(p) =>
                 /\ peer'[p].heartbeat_task = None
                 /\ Scheduled(peer'[p]) <=>
                        (peer[p].reconnection_enabled /\ Stored(peer[p]))]_vars
    /\ []NoAttemptBeforeHandshake

\* C24 as amended: the attempt is scheduled if and only if, besides,
\* no reconnection task is in progress and the attempt counter is below
\* max_reconnection_attempts.
C24_FailureSchedulesWhenFree ==
    /\ [][\A p \in Solo :
             FailureHandled(p) =>
                 /\ peer'[p].heartbeat_task = None
                 /\ Scheduled(peer'[p]) <=>
                        /\ peer[p].reconnection_enabled /\ Stored(peer[p])
                        /\ peer[p].reconnection_task \in {None, "done"}
                        /\ peer[p].reconnection_attempts <
                               peer[p].max_reconnection_attempts]_vars
    /\ []NoAttemptBeforeHandshake

\* C24, its case: the handler of a Failed event cancelled a heartbeat task
\* and scheduled the first attempt.
C24_Witness ==
    /\ Emitted(peer["A"], "failed")
    /\ Called(peer["A"], "heartbeat_task.cancel", NoId)
    /\ Scheduled(peer["A"])
    /\ peer["A"].reconnection_attempts = 1

\* the last step handled a file_accept for the outgoing transfer tid
AcceptHandled(tid) == EmittedFor(peer["A"], "file_accepted", tid)

\* the last step sent a file_timeout or emitted a timeout event for tid
TimeoutFor(tid) ==
    \/ EmittedFor(peer["A"], "file_timeout", tid)
    \/ \E i \in DOMAIN peer["A"].out :
          /\ peer["A"].out[i].kind = "send" /\ peer["A"].out[i].name = "file_timeout"
          /\ peer["A"].out[i].tid = tid

\* the last step began to send transfer tid: file_start is on the channel
SendingBegun(tid) ==
    \E i \in DOMAIN peer["A"].out :
        /\ peer["A"].out[i].kind = "send" /\ peer["A"].out[i].name = "file_start"
        /\ peer["A"].out[i].tid = tid

\* the last step took transfer tid back: a reject or a cancel for it, or the
\* close of the channel
Released(tid) ==
    \/ EmittedFor(peer["A"], "file_rejected", tid)
    \/ OfferWithdrawn(tid)
    \/ Emitted(peer["A"], "channel_close")

\* a task is sending the chunks of transfer tid
Sending(tid) ==
    \E i \in DOMAIN peer["A"].send_tasks :
        /\ peer["A"].send_tasks[i].pos = "stream"
        /\ peer["A"].send_tasks[i].transfer.transfer_id = tid

\* C25: once the session has handled a file_accept for its outgoing transfer
\* (of a file it sends once), the offer timer is cancelled, no file_timeout
\* is sent and no timeout event is emitted for that transfer from then on,
\* and the sending begins with file_start (if it has not begun already),
\* unless the transfer is rejected or cancelled or the channel closes before
\* the send task runs.
C25_AcceptCancelsTimeout ==
    \A tid \in SendIds :
        /\ [](AcceptHandled(tid) => peer["A"].file_offer_timer = NoTimer)
        /\ [](AcceptHandled(tid) => [](~TimeoutFor(tid)))
        /\ (AcceptHandled(tid) /\ ~Sending(tid)) ~> (SendingBegun(tid) \/ Released(tid))

\* C25, its case: the send task of an accepted transfer has put file_start
\* on the channel, with no offer timer left.
C25_Witness ==
    \E tid \in SendIds :
        /\ SendingBegun(tid)
        /\ peer["A"].file_offer_timer = NoTimer
        /\ peer["A"].outgoing_file_transfer.transfer_id = tid

----------------------------------------------------------------------------
(* Claims about the transfer table. *)

\* the last step ended the incoming transfer tid short of completion: the
\* application rejected or cancelled it, or the remote peer's file_error,
\* file_cancel or file_timeout for it was handled, or its checksum failed
IncomingEnded(s, tid) ==
    \/ Called(s, "reject_file", tid)
    \/ Called(s, "cancel_file_transfer", tid)
    \/ EmittedFor(s, "file_error", tid)
    \/ EmittedFor(s, "file_cancelled", tid)
    \/ EmittedFor(s, "file_timeout", tid)

\* C26: whichever way an incoming transfer ends short of completion, its
\* staging file handle is closed and its staging file is deleted: the table
\* holds no open handle for it and the staging directory no file of it.
C26_EndedIncomingLeavesNoStaging ==
    \A p \in Solo : \A tid \in InboundIds :
        IncomingEnded(peer[p], tid) =>
            /\ ~peer[p].disk[StagingPath(tid)].exists
            /\ InTable(peer[p], tid) => Get(peer[p], tid).file_handle = None

\* C27: the table holds no transfer in a terminal state: none that is
\* complete, and none that the last step ended short of completion.
C27_TableHoldsOnlyLive ==
    \A p \in Solo : \A tid \in InboundIds :
        InTable(peer[p], tid) =>
            /\ ~Get(peer[p], tid).is_complete
            /\ ~IncomingEnded(peer[p], tid)

\* the last step put the terminator of transfer tid on the channel
TerminatorSent(tid) ==
    \E i \in DOMAIN peer["A"].out :
        /\ peer["A"].out[i].kind = "send"
        /\ peer["A"].out[i].name \in {"file_end", "file_error"}
        /\ peer["A"].out[i].tid = tid

\* the last step put a chunk of transfer tid on the channel
ChunkSent(tid) ==
    \E i \in DOMAIN peer["A"].out :
        /\ peer["A"].out[i].kind = "send" /\ peer["A"].out[i].name = "chunk"
        /\ peer["A"].out[i].tid = tid

\* C28: for one outgoing transfer (of a file the session sends once) the
\* terminator, file_end or file_error, comes last: the step that sends it
\* clears the outgoing slot, and from then on no file_start and no chunk of
\* that transfer is put on the channel.
C28_TerminatorComesLast ==
    \A tid \in SendIds :
        /\ [](TerminatorSent(tid) => peer["A"].outgoing_file_transfer = NoTransfer)
        /\ [](TerminatorSent(tid) => [](~ChunkSent(tid) /\ ~SendingBegun(tid)))

\* the last step handled a message that arrived, and which
Arrived(s) == s.out # <<>> /\ s.out[1].kind = "call" /\ s.out[1].name = "on_message"
Arrival(s) == s.out[1].arg

\* an offer as the claim wants it: the four fields present, the size in
\* (0, 100 MiB], a name that sanitize_filename accepts
ValidOffer(m) ==
    /\ m.filename # NoId /\ m.file_size # 0 /\ m.checksum # NoId /\ m.transfer_id # NoId
    /\ 0 < m.file_size /\ m.file_size <= MAX_FILE_SIZE
    /\ sanitize_filename(m.filename).ok

\* the approval events the last step emitted
Approvals(s) == SelectSeq(s.out, LAMBDA o : o.kind = "emit" /\ o.name = "file_offer")

Frame(s) ==
    <<s.active_file_transfers, s.outgoing_file_transfer, s.file_offer_timer,
      s.pc, s.pc_closing, s.channel, s.reconnection_task, s.heartbeat_task,
      s.since_heartbeat_response>>

\* C30: a control message of an unknown type, or of a known type without its
\* fields, leaves the transfer table, the outgoing transfer, the offer timer,
\* the state of the connection and the heartbeat as they were.
C30_ViolationIsIgnored ==
    [][\A p \in Solo :
          (Arrived(peer'[p]) /\ Arrival(peer'[p]) \in ViolationMessages) =>
              Frame(peer'[p]) = Frame(peer[p])
      ]_vars

\* The same frame, for every violation but a file_reject without its id.
ViolationButRejectIsIgnored ==
    [][\A p \in Solo :
          (/\ Arrived(peer'[p]) /\ Arrival(peer'[p]) \in ViolationMessages
           /\ Arrival(peer'[p]).type # "file_reject") =>
              Frame(peer'[p]) = Frame(peer[p])
      ]_vars

----------------------------------------------------------------------------
(* Claims about the handshake calls. *)

\* the key the last step returned to the caller of a handshake call
ReturnedKeys(s) == SelectSeq(s.out, LAMBDA o : o.kind = "return")

\* C31: a handshake call that waits for the candidates ends; while the
\* transport is there and its gathering is not complete the wait ends only
\* past its timeout, never before; and the call that ends on a transport
\* then returns one key, of the local description and the candidates the
\* transport holds at that time.
C31_HandshakeCallsTerminate ==
    /\ \A p \in Solo : (peer[p].handshake_pos = "ice_wait") ~> (peer[p].handshake_pos = "idle")
    /\ [][\A p \in Solo :
             (peer[p].handshake_pos = "ice_wait" /\ peer'[p].handshake_pos = "idle"
              /\ peer'[p].pc # None) =>
                 /\ ReturnedKeys(peer'[p]) =
                        << Item("return", "key", NoId,
                                [description |-> peer'[p].local_description,
                                 candidates |-> peer'[p].ice_candidates]) >>
                 /\ peer'[p].local_description \in {"offer", "answer"}
                 /\ peer'[p].ice_gathering # "complete" =>
                        peer'[p].ice_waited > ICE_TIMEOUT
       ]_vars

\* C31, its case: the gathering has not completed, the timeout has passed and
\* the call has returned the key of the offer with the one candidate gathered.
C31_Witness ==
    /\ peer["A"].ice_gathering = "gathering"
    /\ peer["A"].ice_waited > ICE_TIMEOUT
    /\ peer["A"].handshake_pos = "idle"
    /\ ReturnedKeys(peer["A"]) =
           << Item("return", "key", NoId, [description |-> "offer", candidates |-> 1]) >>

\* the role, the stored descriptions and the transport's descriptions
Handshake(s) ==
    <<s.is_initiator, s.original_offer, s.original_answer, s.original_remote_offer,
      s.original_remote_answer, s.local_description, s.remote_description>>

\* C32: an accept_invite call that fails on its key leaves the role, the
\* stored offer and answer and the descriptions of the transport as they
\* were before the call.
C32_FailedAcceptChangesNothing ==
    [][\A p \in Solo :
          (Called(peer'[p], "accept_invite", NoId) /\ Emitted(peer'[p], "error")) =>
              Handshake(peer'[p]) = Handshake(peer[p])
      ]_vars

\* the same, the role apart
FailedAcceptKeepsDescriptions ==
    [][\A p \in Solo :
          (Called(peer'[p], "accept_invite", NoId) /\ Emitted(peer'[p], "error")) =>
              Tail(Handshake(peer'[p])) = Tail(Handshake(peer[p]))
      ]_vars

----------------------------------------------------------------------------
(* Claims about the chat texts. *)

\* the channel delivers to p a text that send() handed over
TextDelivered(p) ==
    /\ net[p] # <<>> /\ Head(net[p]).type = "chat"
    /\ Len(net'[p]) < Len(net[p])

\* C33: a text that send() handed to the channel is surfaced at the peer
\* that receives it as one message event and as nothing else: no answer is
\* sent, no other event emitted, nothing logged, and the session is otherwise
\* as it was.
C33_TextIsSurfacedAsChat ==
    [][\A p \in Peers :
          TextDelivered(p) =>
              /\ peer'[p].out = << Item("emit", "message", NoId, NoMsg) >>
              /\ peer'[p] = [peer[p] EXCEPT !.out = peer'[p].out]
      ]_vars

----------------------------------------------------------------------------
(* Claims about the chunk-send tasks. *)

\* the transfer that task i of the session streams, or will once it runs
StreamOf(s, i) ==
    IF s.send_tasks[i].pos = "start" THEN s.outgoing_file_transfer.transfer_id
    ELSE s.send_tasks[i].transfer.transfer_id

\* C34: no two chunk-send tasks that are alive stream the same outgoing
\* transfer, whatever file_accept messages arrive.
C34_OneSendTaskPerTransfer ==
    \A p \in Solo : \A i, j \in DOMAIN peer[p].send_tasks :
        (i # j /\ StreamOf(peer[p], i) # NoId) =>
            StreamOf(peer[p], i) # StreamOf(peer[p], j)

\* the last step cancelled or rejected the outgoing transfer tid, locally or
\* on a message of the remote peer, while a task streams its chunks
StreamCancelled(tid) ==
    /\ Sending(tid)
    /\ \/ Called(peer["A"], "cancel_file_transfer", tid)
       \/ EmittedFor(peer["A"], "file_cancelled", tid)
       \/ EmittedFor(peer["A"], "file_rejected", tid)

\* the last step put file_end of transfer tid on the channel
EndSent(tid) ==
    \E i \in DOMAIN peer["A"].out :
        /\ peer["A"].out[i].kind = "send" /\ peer["A"].out[i].name = "file_end"
        /\ peer["A"].out[i].tid = tid

\* C35: once an outgoing transfer (of a file the session sends once) whose
\* chunks are being streamed is cancelled or rejected, no chunk and no
\* file_end of it is put on the channel any more.
C35_CancelStopsTheStream ==
    \A tid \in SendIds :
        [](StreamCancelled(tid) => [](~ChunkSent(tid) /\ ~EndSent(tid)))

\* the step is a run of chunk-send task i of p's session in which the task
\* ends, finished or failed
TaskEnds(p, i) ==
    /\ peer[p].send_tasks[i].pos = "stream"
    /\ peer'[p] = _send_file_chunks(Begin(peer[p]), i)
    /\ Len(peer'[p].send_tasks) < Len(peer[p].send_tasks)

\* C36: a chunk-send task that ends leaves the outgoing slot as it is when
\* the slot holds another transfer object than the one the task streamed.
C36_TaskClearsOnlyItsOwnTransfer ==
    [][\A p \in Solo : \A i \in DOMAIN peer[p].send_tasks :
          (/\ TaskEnds(p, i)
           /\ peer[p].outgoing_file_transfer # NoTransfer
           /\ peer[p].outgoing_file_transfer.obj # peer[p].send_tasks[i].transfer.obj) =>
              peer'[p].outgoing_file_transfer = peer[p].outgoing_file_transfer
      ]_vars

\* C37: a file_reject for another transfer than the one the session offers
\* leaves the outgoing transfer and its offer timer as they were.
C37_StaleRejectKeepsOffer ==
    [][\A p \in Solo : \A tid \in SendIds :
          (/\ EmittedFor(peer'[p], "file_rejected", tid)
           /\ peer[p].outgoing_file_transfer # NoTransfer
           /\ peer[p].outgoing_file_transfer.transfer_id # tid) =>
              /\ peer'[p].outgoing_file_transfer = peer[p].outgoing_file_transfer
              /\ peer'[p].file_offer_timer = peer[p].file_offer_timer
      ]_vars

\* C38: an offer whose transfer id is in the table already leaves the
\* transfer of that id as it was: its bytes received, its staging handle and
\* its staging path.
C38_RepeatedOfferKeepsTransfer ==
    [][\A p \in Solo :
          (/\ Arrived(peer'[p]) /\ Arrival(peer'[p]).type = "file_offer"
           /\ InTable(peer[p], Arrival(peer'[p]).transfer_id)) =>
              /\ InTable(peer'[p], Arrival(peer'[p]).transfer_id)
              /\ Get(peer'[p], Arrival(peer'[p]).transfer_id) =
                     Get(peer[p], Arrival(peer'[p]).transfer_id)
      ]_vars

----------------------------------------------------------------------------
(* Claims about the completion of incoming transfers. *)

\* the file_completed events the last step emitted for transfer tid
CompletedEvents(s, tid) ==
    SelectSeq(s.out, LAMBDA o : o.kind = "emit" /\ o.name = "file_completed" /\ o.tid = tid)

\* C39: file_completed is emitted for a transfer of the table once, in the
\* step that marks it complete, whether that step is the chunk that fills the
\* declared size or the file_end; while the transfer is complete, a file_end
\* for it changes nothing and emits nothing (no file_error, no second
\* file_completed), and a chunk leaves it as it is.
C39_CompletedOnce ==
    [][\A p \in Solo : \A tid \in InboundIds :
          /\ CompletedEvents(peer'[p], tid) # <<>> =>
                /\ Len(CompletedEvents(peer'[p], tid)) = 1
                /\ InTable(peer[p], tid) /\ ~Get(peer[p], tid).is_complete
                /\ Completed(peer'[p], tid)
          /\ (/\ Completed(peer[p], tid) /\ Arrived(peer'[p])
              /\ Arrival(peer'[p]) = Ctl("file_end", tid)) =>
                /\ peer'[p].out = << Item("call", "on_message", tid, Ctl("file_end", tid)) >>
                /\ peer'[p] = [peer[p] EXCEPT !.out = peer'[p].out]
          /\ (/\ Completed(peer[p], tid) /\ Arrived(peer'[p])
              /\ Arrival(peer'[p]).type = "chunk") =>
                /\ CompletedEvents(peer'[p], tid) = <<>>
                /\ Get(peer'[p], tid) = Get(peer[p], tid)
      ]_vars

\* C39, its case: a file_end has arrived for the one-byte transfer that the
\* last chunk had completed, and nothing was emitted.
C39_Witness ==
    LET tid == TransferIdOf(<<0>>) IN
    /\ Completed(peer["A"], tid)
    /\ peer["A"].out = << Item("call", "on_message", tid, Ctl("file_end", tid)) >>
    /\ peer["A"].disk[StagingPath(tid)] = File(<<0>>)

\* C40: the staging file of a transfer that is complete stays on disk,
\* whatever message arrives and whatever the application cancels or rejects.
C40_CompletedFileIsKept ==
    [][\A p \in Solo : \A tid \in InboundIds :
          (Completed(peer[p], tid) /\ peer[p].disk[StagingPath(tid)].exists) =>
              peer'[p].disk[StagingPath(tid)].exists
      ]_vars

\* the same, for the arrival of a file_timeout alone
CompletedFileOutlivesTimeout ==
    [][\A p \in Solo : \A tid \in InboundIds :
          (/\ Completed(peer[p], tid) /\ peer[p].disk[StagingPath(tid)].exists
           /\ EmittedFor(peer'[p], "file_timeout", tid)) =>
              peer'[p].disk[StagingPath(tid)].exists
      ]_vars

====
